---- MODULE Spec2Model ----
(***************************************************************************)
(* A model of ptsc's evaluator: the chained Environment, the tagged        *)
(* runtime objects and the tree-walking Eval, translated from              *)
(* src/ptsc/environment.py, src/ptsc/tsobject.py and src/ptsc/evaluator.py.*)
(***************************************************************************)
EXTENDS Integers, Sequences, FiniteSets, TLC

\* Bounds of the model.
MaxEnvs == 3          \* Environment objects alive in the Environment-API specification
MaxSets == 2          \* Set calls made in the Environment-API specification
MaxInt == 2           \* integer literals of the explored programs range over 0..MaxInt
MaxStmts == 2         \* statements of a program built from the statement pool
MaxLen == 3           \* elements of an array literal
MaxArgs == 3          \* arguments of a call of a builtin

VARIABLES
    envs,      \* heap of Environment objects: envs[e] = [store, outer]; outer = 0 is None
    nobj,      \* number of runtime objects allocated so far (object identity)
    op,        \* the last operation made: [name, env, key]
    got,       \* the tuple the last Environment.Get returned: [val, ok]
    nsets,     \* Set calls made so far (Environment-API specification)
    prog,      \* index of the program under evaluation in Programs
    pc,        \* evalProgram: index of the next statement of program.Statements
    res,       \* evalProgram: its local `res`
    status,    \* evalProgram: "running", "returned" or "raised" (a host exception)
    results,   \* per evaluated top-level statement, what Eval returned for it
    log,       \* what the evaluation of the last top-level statement did, in order
    lists,     \* heap of Python lists: lists[r] is the list an Array's Elements refers to
    lx,        \* a Lexer under repeated NextToken calls: its fields and what it returned
    ps         \* a Parser, the Program it builds and what the evaluation of it gave

vars == <<envs, nobj, op, got, nsets, prog, pc, res, status, results, log, lists, lx, ps>>

\* No Lexer and no Parser exist in the specifications of the Environment and of
\* the evaluator.
NoLexer == [status |-> "none"]
NoParser == [status |-> "none"]

(***************************************************************************)
(* Runtime objects (tsobject.py).  Every object carries its type tag, its  *)
(* payload and its identity Id; Python's `is` compares Ids.                *)
(***************************************************************************)
Obj(t, v, id) == [Type |-> t, Value |-> v, Id |-> id]

\* The four module-level singletons of evaluator.py.
NULL == Obj("NULL", 0, 1)
UNDEFINED == Obj("UNDEFINED", 0, 2)
TrueObj == Obj("BOOLEAN", TRUE, 3)
FalseObj == Obj("BOOLEAN", FALSE, 4)
\* The names of the builtins table of builtins.py; its Builtin objects are created
\* at import, after the four singletons, and evaluation allocates after them.
BuiltinNames == <<"len", "puts", "first", "last", "rest", "push">>
FirstFreeId == 4 + Len(BuiltinNames)

\* Host-level values that are not tsobject.Object instances.
None == Obj("NONE", 0, 0)                     \* Python's None
HostStr(s) == Obj("HOST_STR", s, 0)           \* a Python str
\* A host exception leaving the call, with str(e)
RaisedMsg(exc, msg) == [Type |-> "HOST_EXCEPTION", Value |-> exc, Id |-> 0, Message |-> msg]
Raised(exc) == RaisedMsg(exc, "")

Is(a, b) == a.Type = b.Type /\ a.Id = b.Id    \* Python `a is b`

(***************************************************************************)
(* Environment (environment.py).                                           *)
(***************************************************************************)
EmptyStore == [n \in {} |-> None]

\* Environment.__init__
Environment(outer) == [store |-> EmptyStore, outer |-> outer]

\* Environment.Get: the tuple it returns, as [val, ok].
RECURSIVE Get(_, _, _)
Get(h, e, name) ==
    IF name \in DOMAIN h[e].store
    THEN [val |-> HostStr(name), ok |-> TRUE]
    ELSE IF h[e].outer # 0
         THEN Get(h, h[e].outer, name)
         ELSE [val |-> None, ok |-> FALSE]

\* A Set that assigns to the nearest enclosing frame that already binds the name.
RECURSIVE SetAssigning(_, _, _, _)
SetAssigning(h, e, name, val) ==
    IF name \notin DOMAIN h[e].store /\ h[e].outer # 0
       /\ Get(h, h[e].outer, name).ok
    THEN SetAssigning(h, h[e].outer, name, val)
    ELSE [h EXCEPT ![e].store =
            [n \in DOMAIN @ \cup {name} |-> IF n = name THEN val ELSE @[n]]]

\* Environment.Set: the heap after self.store[name] = val.
Set(h, e, name, val) ==
    [h EXCEPT ![e].store =
        [n \in DOMAIN @ \cup {name} |-> IF n = name THEN val ELSE @[n]]]

(***************************************************************************)
(* The Environment-API specification: environments are created, bound and  *)
(* looked up directly.                                                     *)
(***************************************************************************)
Names == {"a", "b"}

\* The objects bound by the Environment-API specification: two distinct objects.
Pool == <<Obj("INTEGER", 0, FirstFreeId + 1), Obj("INTEGER", 1, FirstFreeId + 2)>>

NoOp == [name |-> "none", env |-> 0, key |-> ""]
NoGot == [val |-> None, ok |-> FALSE]

InitEnv ==
    /\ envs = <<Environment(0)>>
    /\ nobj = FirstFreeId + Len(Pool)
    /\ op = NoOp
    /\ got = NoGot
    /\ nsets = 0
    /\ prog = 0
    /\ pc = 0
    /\ res = None
    /\ status = "idle"
    /\ results = <<>>
    /\ log = <<>>
    /\ lists = <<>>
    /\ lx = NoLexer
    /\ ps = NoParser

NewEnvironment ==
    /\ Len(envs) < MaxEnvs
    /\ \E outer \in 0..Len(envs) :
          /\ envs' = Append(envs, Environment(outer))
          /\ op' = [name |-> "New", env |-> Len(envs) + 1, key |-> ""]
    /\ UNCHANGED <<nobj, got, nsets, prog, pc, res, status, results, log, lists, lx, ps>>

EnvSet ==
    /\ nsets < MaxSets
    /\ \E e \in 1..Len(envs), name \in Names, i \in 1..Len(Pool) :
          /\ envs' = Set(envs, e, name, Pool[i])
          /\ op' = [name |-> "Set", env |-> e, key |-> name]
    /\ nsets' = nsets + 1
    /\ UNCHANGED <<nobj, got, prog, pc, res, status, results, log, lists, lx, ps>>

EnvGet ==
    /\ \E e \in 1..Len(envs), name \in Names :
          /\ got' = Get(envs, e, name)
          /\ op' = [name |-> "Get", env |-> e, key |-> name]
    /\ UNCHANGED <<envs, nobj, nsets, prog, pc, res, status, results, log, lists, lx, ps>>

NextEnv == NewEnvironment \/ EnvSet \/ EnvGet

SpecEnv == InitEnv /\ [][NextEnv]_vars

(***************************************************************************)
(* AST nodes (ast.py).  A node is a record tagged with its class; Label    *)
(* stands for the identity of a statement, block or if node, so that the   *)
(* log can tell which node an evaluation step was about.                   *)
(***************************************************************************)
NoNode == [kind |-> "None"]                   \* a None where a node is expected
Identifier(v) == [kind |-> "Identifier", Value |-> v]
IntegerLiteral(v) == [kind |-> "IntegerLiteral", Value |-> v]
StringLiteral(v) == [kind |-> "StringLiteral", Value |-> v]
Boolean(v) == [kind |-> "Boolean", Value |-> v]
PrefixExpression(o, r) == [kind |-> "PrefixExpression", Operator |-> o, Right |-> r]
InfixExpression(l, o, r) ==
    [kind |-> "InfixExpression", Left |-> l, Operator |-> o, Right |-> r]
IfExpression(lbl, c, cons, alt) ==
    [kind |-> "IfExpression", Label |-> lbl, Condition |-> c,
     Consequence |-> cons, Alternative |-> alt]
FunctionLiteral(params, body) ==
    [kind |-> "FunctionLiteral", Parameters |-> params, Body |-> body]
CallExpression(f, args) == [kind |-> "CallExpression", Function |-> f, Arguments |-> args]
ArrayLiteral(elems) == [kind |-> "ArrayLiteral", Elements |-> elems]
IndexExpression(l, i) == [kind |-> "IndexExpression", Left |-> l, Index |-> i]
\* Pairs is the dict of the node, as the sequence of its <<key, value>> items
HashLiteral(pairs) == [kind |-> "HashLiteral", Pairs |-> pairs]
LetStatement(lbl, name, v) ==
    [kind |-> "LetStatement", Label |-> lbl, Name |-> Identifier(name), Value |-> v]
ReturnStatement(lbl, v) == [kind |-> "ReturnStatement", Label |-> lbl, ReturnValue |-> v]
ExpressionStatement(lbl, e) ==
    [kind |-> "ExpressionStatement", Label |-> lbl, Expression |-> e]
BlockStatement(lbl, stmts) == [kind |-> "BlockStatement", Label |-> lbl, Statements |-> stmts]
Program(stmts) == [kind |-> "Program", Statements |-> stmts]

(***************************************************************************)
(* Evaluation threads the mutable part of the interpreter through every    *)
(* call: st = [envs, nobj, lists, log].  A call's outcome is [res, st]; res *)
(* is the returned object, None, or Raised(exc) when a host exception      *)
(* leaves the call.  Every log entry carries the list heap and the         *)
(* environments as they are when the entry is made.                        *)
(***************************************************************************)
Out(r, st) == [res |-> r, st |-> st]
NewId(st) == st.nobj + 1
Alloc(st) == [st EXCEPT !.nobj = @ + 1]
Ev(ev, label, env, name, obj) ==
    [ev |-> ev, label |-> label, env |-> env, name |-> name, obj |-> obj,
     lists |-> <<>>, envs |-> <<>>]
Emit(st, e) ==
    [st EXCEPT !.log = Append(@, [e EXCEPT !.lists = st.lists, !.envs = st.envs])]
IsRaised(o) == o.Type = "HOST_EXCEPTION"
IsNone(o) == o.Type = "NONE"

\* tsobject.Object(): a new object of type UNDEFINED, not the UNDEFINED singleton.
NewObject(st) == Out(Obj("UNDEFINED", 0, NewId(st)), Alloc(st))
NewInteger(v, st) == Out(Obj("INTEGER", v, NewId(st)), Alloc(st))
NewString(v, st) == Out(Obj("STRING", v, NewId(st)), Alloc(st))
\* arr.Elements for an Array object arr: its Value refers to a list of the heap
Elements(arr, st) == st.lists[arr.Value]

\* tsobject.Array(Elements=elems) for a list elems no other object refers to (a new
\* list, or the new empty list `Elements if Elements else []` makes)
NewArray(elems, st) ==
    Out(Obj("ARRAY", Len(st.lists) + 1, NewId(st)),
        [Alloc(st) EXCEPT !.lists = Append(@, elems)])

\* tsobject.Array(Elements=l) for a non-empty list l of the heap: the new Array
\* refers to the same list
NewArraySharing(l, st) == Out(Obj("ARRAY", l, NewId(st)), Alloc(st))

\* tsobject.Hash(Pairs=pairs); Value holds the Pairs
NewHash(pairs, st) == Out(Obj("HASH", pairs, NewId(st)), Alloc(st))

\* newError
newError(msg, st) == Out(Obj("ERROR", msg, NewId(st)), Alloc(st))

\* isError
isError(o) == IF IsNone(o) THEN FALSE ELSE o.Type = "ERROR"

\* isTruthy
isTruthy(o) == IF Is(o, NULL) \/ Is(o, FalseObj) THEN FALSE ELSE TRUE

\* nativeBoolToBooleanObject
nativeBoolToBooleanObject(input) == IF input THEN TrueObj ELSE FalseObj

\* A negation that tests the Boolean payload only, so that null negates to false.
evalBangOperatorExpressionValueOnly(right) ==
    IF right.Type = "BOOLEAN" /\ right.Value = FALSE THEN TrueObj ELSE FalseObj

\* evalBangOperatorExpression
evalBangOperatorExpression(right) ==
    IF Is(right, FalseObj) \/ Is(right, NULL) THEN TrueObj ELSE FalseObj

\* tsobject.ReturnValue(Value=val): `Value if Value else Object()`; only None is falsy,
\* no tsobject class defines __bool__ or __len__.
NewReturnValue(val, st) ==
    IF IsNone(val)
    THEN LET o == NewObject(st) IN Out(Obj("RETURN_VALUE", o.res, NewId(o.st)), Alloc(o.st))
    ELSE Out(Obj("RETURN_VALUE", val, NewId(st)), Alloc(st))

\* unwrapReturnValue
unwrapReturnValue(o) == IF o.Type = "RETURN_VALUE" THEN o.Value ELSE o

\* evalMinusPrefixOperatorExpression; None has no attribute Type.
evalMinusPrefixOperatorExpression(right, st) ==
    IF IsNone(right) THEN Out(Raised("AttributeError"), st)
    ELSE IF right.Type # "INTEGER"
         THEN newError("unknown operator: -" \o right.Type, st)
         ELSE NewInteger(0 - right.Value, st)

\* evalPrefixExpression
evalPrefixExpression(operator, right, st) ==
    IF operator = "!" THEN Out(evalBangOperatorExpression(right), st)
    ELSE IF operator = "-" THEN evalMinusPrefixOperatorExpression(right, st)
    ELSE IF IsNone(right) THEN Out(Raised("AttributeError"), st)
    ELSE newError("unknown operator: " \o operator \o right.Type, st)

\* evalIntegerInfixExpression; `/` is Python's true division: it raises on a zero
\* divisor and otherwise stores the quotient [num, den] as the Integer's Value.
evalIntegerInfixExpression(operator, left, right, st) ==
    LET lvalue == left.Value
        rvalue == right.Value
    IN  IF operator = "+" THEN NewInteger(lvalue + rvalue, st)
        ELSE IF operator = "-" THEN NewInteger(lvalue - rvalue, st)
        ELSE IF operator = "*" THEN NewInteger(lvalue * rvalue, st)
        ELSE IF operator = "/"
             THEN IF rvalue = 0 THEN Out(Raised("ZeroDivisionError"), st)
                  ELSE NewInteger([num |-> lvalue, den |-> rvalue], st)
        ELSE IF operator = "<" THEN Out(nativeBoolToBooleanObject(lvalue < rvalue), st)
        ELSE IF operator = ">" THEN Out(nativeBoolToBooleanObject(lvalue > rvalue), st)
        ELSE IF operator = "==" THEN Out(nativeBoolToBooleanObject(lvalue = rvalue), st)
        ELSE IF operator = "!=" THEN Out(nativeBoolToBooleanObject(lvalue # rvalue), st)
        ELSE newError("unknown operator: " \o left.Type \o " " \o operator \o " "
                      \o right.Type, st)

\* A String infix that compares the texts of its operands under == and !=.
evalStringInfixExpressionComparing(operator, left, right, st) ==
    IF operator = "==" THEN Out(nativeBoolToBooleanObject(left.Value = right.Value), st)
    ELSE IF operator = "!=" THEN Out(nativeBoolToBooleanObject(left.Value # right.Value), st)
    ELSE IF operator # "+"
    THEN newError("unknown operator: " \o left.Type \o " " \o operator \o " "
                  \o right.Type, st)
    ELSE NewString(left.Value \o right.Value, st)

\* evalStringInfixExpression
evalStringInfixExpression(operator, left, right, st) ==
    IF operator # "+"
    THEN newError("unknown operator: " \o left.Type \o " " \o operator \o " "
                  \o right.Type, st)
    ELSE NewString(left.Value \o right.Value, st)

\* evalInfixExpression; the attribute reads of None raise where Python reaches them.
evalInfixExpression(operator, left, right, st) ==
    IF IsNone(left) THEN Out(Raised("AttributeError"), st)
    ELSE IF left.Type = "INTEGER" /\ IsNone(right) THEN Out(Raised("AttributeError"), st)
    ELSE IF left.Type = "INTEGER" /\ right.Type = "INTEGER"
         THEN evalIntegerInfixExpression(operator, left, right, st)
    ELSE IF left.Type = "STRING" /\ IsNone(right) THEN Out(Raised("AttributeError"), st)
    ELSE IF left.Type = "STRING" /\ right.Type = "STRING"
         THEN evalStringInfixExpression(operator, left, right, st)
    ELSE IF operator = "==" THEN Out(nativeBoolToBooleanObject(Is(left, right)), st)
    ELSE IF operator = "!=" THEN Out(nativeBoolToBooleanObject(~Is(left, right)), st)
    ELSE IF IsNone(right) THEN Out(Raised("AttributeError"), st)
    ELSE IF left.Type # right.Type
         THEN newError("type mismatch: " \o left.Type \o " " \o operator \o " "
                       \o right.Type, st)
    ELSE newError("unknown operator " \o left.Type \o " " \o operator \o " "
                  \o right.Type, st)

(***************************************************************************)
(* Builtins (builtins.py): the table, and the native functions as far as   *)
(* the objects of this model reach them.  The messages quote the builtin's *)
(* name with ' where the source uses a backquote.                          *)
(***************************************************************************)
builtins == [i \in 1..Len(BuiltinNames) |-> Obj("BUILTIN", BuiltinNames[i], 4 + i)]
IsBuiltinName(name) == \E i \in 1..Len(BuiltinNames) : BuiltinNames[i] = name
BuiltinNamed(name) == builtins[CHOOSE i \in 1..Len(BuiltinNames) : BuiltinNames[i] = name]

wrongNumber(got_, want, st) ==
    newError("wrong number of arguments. got=" \o ToString(got_) \o ", want="
             \o ToString(want), st)

\* A len that hands every argument that is no Array to the host's len(), which
\* raises for an object without a length.
lenFuncHostLen(args, st) ==
    IF Len(args) # 1 THEN wrongNumber(Len(args), 1, st)
    ELSE IF args[1].Type = "ARRAY" THEN NewInteger(Len(Elements(args[1], st)), st)
    ELSE IF args[1].Type = "STRING" THEN NewInteger(Len(args[1].Value), st)
    ELSE Out(Raised("TypeError"), st)

\* lenFunc
lenFunc(args, st) ==
    IF Len(args) # 1 THEN wrongNumber(Len(args), 1, st)
    ELSE IF args[1].Type = "ARRAY" THEN NewInteger(Len(Elements(args[1], st)), st)
    ELSE IF args[1].Type = "STRING" THEN NewInteger(Len(args[1].Value), st)
    ELSE IF IsNone(args[1]) THEN Out(Raised("AttributeError"), st)
    ELSE newError("argument to 'len' not supported, got " \o args[1].Type, st)

\* putsFunc: prints each argument's Inspect(); None has no Inspect.
RECURSIVE putsFunc(_, _, _)
putsFunc(args, i, st) ==
    IF i > Len(args) THEN Out(UNDEFINED, st)
    ELSE IF IsNone(args[i]) THEN Out(Raised("AttributeError"), st)
    ELSE putsFunc(args, i + 1, Emit(st, Ev("puts", 0, 0, "", args[i])))

\* A rest that removes the first element from the list of its argument and returns
\* an Array referring to that list.
arrayFuncPopping(name, args, st) ==
    IF Len(args) # 1 THEN wrongNumber(Len(args), 1, st)
    ELSE IF IsNone(args[1]) THEN Out(Raised("AttributeError"), st)
    ELSE IF args[1].Type # "ARRAY"
    THEN newError("argument to '" \o name \o "' must be ARRAY, got " \o args[1].Type, st)
    ELSE LET elems == Elements(args[1], st)
         IN  IF name = "first"
             THEN IF Len(elems) > 0 THEN Out(elems[1], st) ELSE Out(UNDEFINED, st)
             ELSE IF name = "last"
             THEN IF Len(elems) > 0 THEN Out(elems[Len(elems)], st) ELSE Out(UNDEFINED, st)
             ELSE IF Len(elems) > 0
             THEN NewArraySharing(args[1].Value,
                                  [st EXCEPT !.lists[args[1].Value] = Tail(@)])
             ELSE Out(UNDEFINED, st)

\* firstFunc, lastFunc, restFunc: they differ in their name and in what they take
\* from the array's Elements.
arrayFunc(name, args, st) ==
    IF Len(args) # 1 THEN wrongNumber(Len(args), 1, st)
    ELSE IF IsNone(args[1]) THEN Out(Raised("AttributeError"), st)
    ELSE IF args[1].Type # "ARRAY"
    THEN newError("argument to '" \o name \o "' must be ARRAY, got " \o args[1].Type, st)
    ELSE LET elems == Elements(args[1], st)
         IN  IF name = "first"
             THEN IF Len(elems) > 0 THEN Out(elems[1], st) ELSE Out(UNDEFINED, st)
             ELSE IF name = "last"
             THEN IF Len(elems) > 0 THEN Out(elems[Len(elems)], st) ELSE Out(UNDEFINED, st)
             ELSE IF Len(elems) > 1 THEN NewArray(Tail(elems), st)
             ELSE IF Len(elems) = 1 THEN NewArray(<<>>, st)
             ELSE Out(UNDEFINED, st)

\* pushFunc: `arr = arr.Elements; arr.append(item)` appends to the list of the
\* argument, and the Array returned refers to that list.
pushFunc(args, st) ==
    IF Len(args) # 2 THEN wrongNumber(Len(args), 2, st)
    ELSE IF IsNone(args[1]) THEN Out(Raised("AttributeError"), st)
    ELSE IF args[1].Type # "ARRAY"
    THEN newError("first argument to 'push' must be ARRAY, got " \o args[1].Type, st)
    ELSE NewArraySharing(args[1].Value,
                         [st EXCEPT !.lists[args[1].Value] = Append(@, args[2])])

\* fn.Fn(*args) for a Builtin fn
callBuiltin(fn, args, st) ==
    IF fn.Value = "len" THEN lenFunc(args, st)
    ELSE IF fn.Value = "puts" THEN putsFunc(args, 1, st)
    ELSE IF fn.Value = "push" THEN pushFunc(args, st)
    ELSE arrayFunc(fn.Value, args, st)

(***************************************************************************)
(* The evaluator proper (evaluator.py).                                    *)
(***************************************************************************)
\* env.Set(name, val) on the threaded heap
StSet(st, e, name, val) ==
    Emit([st EXCEPT !.envs = Set(@, e, name, val)], Ev("set", 0, e, name, val))

\* isinstance(val, tsobject.Object)
IsObject(val) == val.Type \notin {"NONE", "HOST_STR", "HOST_EXCEPTION"}

\* evalIdentifier; the default newError(...) of builtins.get is built before the lookup.
evalIdentifier(node, env, st) ==
    LET g == Get(st.envs, env, node.Value)
        e == newError("identifier not found: " \o node.Value, st)
        r == IF g.ok
             THEN IF ~IsObject(g.val) THEN Out(Raised("TypeError"), st) ELSE Out(g.val, st)
             ELSE IF IsBuiltinName(node.Value)
                  THEN Out(BuiltinNamed(node.Value), e.st)
                  ELSE e
    IN  Out(r.res, Emit(r.st, Ev("ident", 0, env, node.Value, r.res)))

\* the outer of the Environment extendFunctionEnv creates: fn.Env
FnEnv(fn, st) == fn.Value.Env

\* extendFunctionEnv's loop: env.Set(p.Value, args[i]) for each parameter
RECURSIVE bindParameters(_, _, _, _, _)
bindParameters(params, args, i, e, st) ==
    IF i > Len(params) THEN st
    ELSE bindParameters(params, args, i + 1, e, StSet(st, e, params[i].Value, args[i]))

\* An extendFunctionEnv without the arity check: it binds the parameters that have
\* an argument.
extendFunctionEnvNoCheck(fn, args, st) ==
    LET e == Len(st.envs) + 1
        n == IF Len(args) < Len(fn.Value.Parameters) THEN Len(args)
             ELSE Len(fn.Value.Parameters)
        s1 == [st EXCEPT !.envs = Append(@, Environment(FnEnv(fn, st)))]
    IN  Out(Obj("ENV", e, 0),
            bindParameters(SubSeq(fn.Value.Parameters, 1, n), args, 1, e, s1))

\* extendFunctionEnv: the new Environment's index, or the ValueError it raises
extendFunctionEnv(fn, args, st) ==
    IF Len(args) # Len(fn.Value.Parameters)
    THEN Out(RaisedMsg("ValueError", "Incorrect number of arguments, expected "
                       \o ToString(Len(fn.Value.Parameters)) \o ", got "
                       \o ToString(Len(args))), st)
    ELSE LET e == Len(st.envs) + 1
             s1 == [st EXCEPT !.envs = Append(@, Environment(FnEnv(fn, st)))]
         IN  Out(Obj("ENV", e, 0), bindParameters(fn.Value.Parameters, args, 1, e, s1))

IsValueError(o) == IsRaised(o) /\ o.Value = "ValueError"

\* evalBlockStatement's test after each statement: res is not None and is a
\* ReturnValue or an Error
blockStops(r) ==
    IF IsNone(r) THEN FALSE ELSE r.Type = "RETURN_VALUE" \/ r.Type = "ERROR"

\* An if that falls to the alternative whenever there is one.
ifBranchAlternativeFirst(ie, condition) ==
    IF ie.Alternative.kind # "None" THEN ie.Alternative
    ELSE IF isTruthy(condition) THEN ie.Consequence
    ELSE NoNode

\* evalIfExpression's choice: the block to evaluate, or NoNode when it returns NULL
ifBranch(ie, condition) ==
    IF isTruthy(condition) THEN ie.Consequence
    ELSE IF ie.Alternative.kind # "None" THEN ie.Alternative
    ELSE NoNode

\* An evalProgram loop body that stops on an Error only.
programStopsOnErrorOnly(r) == r.Type = "ERROR"

\* evalProgram's tests after each statement: isinstance(res, ReturnValue) or
\* isinstance(res, Error)
programStops(r) == r.Type = "RETURN_VALUE" \/ r.Type = "ERROR"

\* The log entry of a call's return: r as it is when a host exception leaves the
\* call, and otherwise with the step (ev, label, env, name) recording r's object.
logResult(ev, label, env, name, r) ==
    IF IsRaised(r.res) THEN r
    ELSE Out(r.res, Emit(r.st, Ev(ev, label, env, name, r.res)))

RECURSIVE Eval(_, _, _), evalProgram(_, _, _), evalProgramLoop(_, _, _, _, _),
          evalBlockStatement(_, _, _), evalBlockLoop(_, _, _, _, _),
          evalIfExpression(_, _, _), evalExpressions(_, _, _, _, _),
          applyFunction(_, _, _)

\* evalProgram's loop body after `res = Eval(statement, env)`, r being what Eval
\* returned: [raw, res, stop, st], where raw is r's object, res the new value of
\* `res` (or what evalProgram returns), and stop whether evalProgram is left here.
programStepAfter(r) ==
    IF IsRaised(r.res)
    THEN [raw |-> r.res, res |-> r.res, stop |-> TRUE, st |-> r.st]
    ELSE IF programStops(r.res)
    THEN [raw |-> r.res,
          res |-> IF r.res.Type = "RETURN_VALUE" THEN r.res.Value ELSE r.res,
          stop |-> TRUE, st |-> r.st]
    ELSE [raw |-> r.res, res |-> r.res, stop |-> FALSE, st |-> r.st]

\* One iteration of evalProgram's loop.
evalProgramStep(statement, env, st) == programStepAfter(Eval(statement, env, st))

evalProgramLoop(program, i, env, res_, st) ==
    IF i > Len(program.Statements) THEN Out(res_, st)
    ELSE LET s == evalProgramStep(program.Statements[i], env, st)
         IN  IF s.stop THEN Out(s.res, s.st)
             ELSE evalProgramLoop(program, i + 1, env, s.res, s.st)

\* evalProgram
evalProgram(program, env, st) ==
    LET o == NewObject(st) IN evalProgramLoop(program, 1, env, o.res, o.st)

evalBlockLoop(block, i, env, res_, st) ==
    IF i > Len(block.Statements) THEN Out(res_, st)
    ELSE LET r == Eval(block.Statements[i], env, st)
         IN  IF IsRaised(r.res) \/ blockStops(r.res) THEN r
             ELSE evalBlockLoop(block, i + 1, env, r.res, r.st)

\* evalBlockStatement; the log records its entry ("block") and what it returns
\* ("blockres")
evalBlockStatement(block, env, st) ==
    LET o == NewObject(Emit(st, Ev("block", block.Label, env, "", None)))
    IN  logResult("blockres", block.Label, env, "",
                  evalBlockLoop(block, 1, env, o.res, o.st))

\* evalIfExpression; the log records the condition's value ("if", with "else" when
\* the node has an alternative) and what the expression returns ("ifres")
evalIfExpression(ie, env, st) ==
    LET c == Eval(ie.Condition, env, st)
    IN  IF IsRaised(c.res) THEN c
        ELSE LET s1 == Emit(c.st, Ev("if", ie.Label, env,
                                     IF ie.Alternative.kind # "None" THEN "else" ELSE "",
                                     c.res))
                 b == ifBranch(ie, c.res)
             IN  logResult("ifres", ie.Label, env, "",
                           IF isError(c.res) THEN Out(c.res, s1)
                           ELSE IF b.kind = "None" THEN Out(NULL, s1)
                           ELSE Eval(b, env, s1))

\* evalExpressions: [res, st] with res a LIST object holding the evaluated objects
\* (the single Error, when one occurred), or the exception raised
evalExpressions(exps, i, env, result, st) ==
    IF i > Len(exps) THEN Out(Obj("LIST", result, 0), st)
    ELSE LET r == Eval(exps[i], env, st)
         IN  IF IsRaised(r.res) THEN r
             ELSE IF isError(r.res) THEN Out(Obj("LIST", <<r.res>>, 0), r.st)
             ELSE evalExpressions(exps, i + 1, env, Append(result, r.res), r.st)

\* An applyFunction that evaluates the body in the Environment the function was
\* defined in.
applyFunctionInDefiningEnv(fn, args, st) ==
    IF IsNone(fn) THEN Out(Raised("AttributeError"), st)
    ELSE IF fn.Type = "FUNCTION"
    THEN LET x == extendFunctionEnv(fn, args, st)
         IN  IF IsValueError(x.res) THEN newError(x.res.Message, x.st)
             ELSE LET s1 == Emit(x.st, Ev("apply", fn.Value.Env, x.res.Value, "", fn))
                      b == Eval(fn.Value.Body, fn.Value.Env, s1)
                  IN  IF IsValueError(b.res) THEN newError(b.res.Message, b.st)
                      ELSE IF IsRaised(b.res) THEN b
                      ELSE Out(unwrapReturnValue(b.res),
                               Emit(b.st, Ev("applied", fn.Value.Env, x.res.Value, "",
                                             b.res)))
    ELSE IF fn.Type = "BUILTIN" THEN callBuiltin(fn, args, st)
    ELSE newError("not a function: " \o fn.Type, st)

\* applyFunction: `except ValueError` also covers the evaluation of the body
applyFunction(fn, args, st) ==
    IF IsNone(fn) THEN Out(Raised("AttributeError"), st)
    ELSE IF fn.Type = "FUNCTION"
    THEN LET x == extendFunctionEnv(fn, args, st)
         IN  IF IsValueError(x.res) THEN newError(x.res.Message, x.st)
             ELSE LET s1 == Emit(x.st, Ev("apply", fn.Value.Env, x.res.Value, "", fn))
                      b == Eval(fn.Value.Body, x.res.Value, s1)
                  IN  IF IsValueError(b.res) THEN newError(b.res.Message, b.st)
                      ELSE IF IsRaised(b.res) THEN b
                      ELSE Out(unwrapReturnValue(b.res),
                               Emit(b.st, Ev("applied", fn.Value.Env, x.res.Value, "",
                                             b.res)))
    ELSE IF fn.Type = "BUILTIN" THEN callBuiltin(fn, args, st)
    ELSE newError("not a function: " \o fn.Type, st)

\* A call that applies the function to whatever evalExpressions returned.
callWithApplying(fn, args, env) ==
    IF IsRaised(args.res) THEN args
    ELSE logResult("callres", 0, env, "",
             applyFunction(fn, args.res.Value,
                 Emit(args.st, Ev("call", 0, env, "",
                                  Obj("CALL", [Fn |-> fn, Args |-> args.res.Value], 0)))))

\* Eval's CallExpression branch once the arguments are evaluated (args is what
\* evalExpressions returned); the log records the application ("call") and what it
\* returns ("callres")
callWith(fn, args, env) ==
    IF IsRaised(args.res) THEN args
    ELSE IF Len(args.res.Value) = 1 /\ isError(args.res.Value[1])
    THEN Out(args.res.Value[1], args.st)
    ELSE logResult("callres", 0, env, "",
             applyFunction(fn, args.res.Value,
                 Emit(args.st, Ev("call", 0, env, "",
                                  Obj("CALL", [Fn |-> fn, Args |-> args.res.Value], 0)))))

\* evalArrayIndexExpression: `index < 0` compares the Integer object index with an
\* int; Integer defines no ordering, so the comparison raises before any element is
\* read.
evalArrayIndexExpression(arr, index, st) == Out(Raised("TypeError"), st)

\* evalHashIndexExpression: its first line reads tsobject.Hashable, a name the
\* module tsobject does not define.
evalHashIndexExpression(hash, index, st) == Out(Raised("AttributeError"), st)

\* evalIndexExpression; the attribute reads of None raise where Python reaches them.
evalIndexExpression(left, index, st) ==
    IF IsNone(left) THEN Out(Raised("AttributeError"), st)
    ELSE IF left.Type = "ARRAY" /\ IsNone(index) THEN Out(Raised("AttributeError"), st)
    ELSE IF left.Type = "ARRAY" /\ index.Type = "INTEGER"
         THEN evalArrayIndexExpression(left, index, st)
    ELSE IF left.Type = "HASH" THEN evalHashIndexExpression(left, index, st)
    ELSE newError("index operator not supported: " \o left.Type, st)

\* Eval's IndexExpression branch once both operands are evaluated (index is what
\* Eval returned for node.Index); the log records the operands ("index") and what
\* the expression returns ("indexres")
indexWith(left, index, env) ==
    IF IsRaised(index.res) \/ isError(index.res) THEN index
    ELSE logResult("indexres", 0, env, "",
             evalIndexExpression(left, index.res,
                 Emit(index.st, Ev("index", 0, env, "",
                                   Obj("INDEX", [Left |-> left, Index |-> index.res], 0)))))

\* Eval's InfixExpression branch once both operands are evaluated (right is what
\* Eval returned for node.Right); the log records the operands ("infix") and what
\* the expression returns ("infixres")
infixWith(operator, left, right, env) ==
    logResult("infixres", 0, env, operator,
        evalInfixExpression(operator, left, right.res,
            Emit(right.st, Ev("infix", 0, env, operator,
                              Obj("INFIX", [Left |-> left, Right |-> right.res], 0)))))

\* evalHashLiteral: `for k, v in node.Pairs` iterates over the keys of the dict and
\* unpacks the first key, an ast node, into k and v, which raises; with no pairs the
\* loop body is never entered.
evalHashLiteral(node, env, st) ==
    IF Len(node.Pairs) > 0 THEN Out(Raised("TypeError"), st)
    ELSE NewHash(<<>>, st)

\* Eval's ArrayLiteral branch once the elements are evaluated
arrayOf(elems) ==
    IF IsRaised(elems.res) THEN elems
    ELSE IF Len(elems.res.Value) = 1 /\ isError(elems.res.Value[1])
    THEN Out(elems.res.Value[1], elems.st)
    ELSE NewArray(elems.res.Value, elems.st)

\* Eval
Eval(node, env, st) ==
    LET k == node.kind
    IN  IF k = "Program" THEN evalProgram(node, env, st)
        ELSE IF k = "BlockStatement" THEN evalBlockStatement(node, env, st)
        ELSE IF k = "ExpressionStatement"
        THEN Eval(node.Expression, env, Emit(st, Ev("stmt", node.Label, env, "", None)))
        ELSE IF k = "ReturnStatement"
        THEN LET v == Eval(node.ReturnValue, env,
                           Emit(st, Ev("stmt", node.Label, env, "", None)))
             IN  IF IsRaised(v.res) \/ isError(v.res) THEN v
                 ELSE logResult("return", node.Label, env, "", NewReturnValue(v.res, v.st))
        ELSE IF k = "LetStatement"
        THEN LET v == Eval(node.Value, env, Emit(st, Ev("stmt", node.Label, env, "", None)))
             IN  IF IsRaised(v.res) \/ isError(v.res) THEN v
                 ELSE Out(None, StSet(v.st, env, node.Name.Value, v.res))
        ELSE IF k = "IntegerLiteral" THEN NewInteger(node.Value, st)
        ELSE IF k = "StringLiteral" THEN NewString(node.Value, st)
        ELSE IF k = "Boolean" THEN Out(nativeBoolToBooleanObject(node.Value), st)
        ELSE IF k = "PrefixExpression"
        THEN LET right == Eval(node.Right, env, st)
             IN  IF IsRaised(right.res) \/ isError(right.res) THEN right
                 ELSE logResult("prefixres", 0, env, node.Operator,
                          evalPrefixExpression(node.Operator, right.res,
                              Emit(right.st, Ev("prefix", 0, env, node.Operator,
                                                right.res))))
        ELSE IF k = "InfixExpression"
        THEN LET left == Eval(node.Left, env, st)
             IN  IF IsRaised(left.res) \/ isError(left.res) THEN left
                 ELSE LET right == Eval(node.Right, env, left.st)
                      IN  IF IsRaised(right.res) \/ isError(right.res) THEN right
                          ELSE infixWith(node.Operator, left.res, right, env)
        ELSE IF k = "IfExpression" THEN evalIfExpression(node, env, st)
        ELSE IF k = "Identifier" THEN evalIdentifier(node, env, st)
        ELSE IF k = "FunctionLiteral"
        THEN Out(Obj("FUNCTION",
                     [Parameters |-> node.Parameters, Body |-> node.Body, Env |-> env],
                     NewId(st)), Alloc(st))
        ELSE IF k = "CallExpression"
        THEN LET fn == Eval(node.Function, env, st)
             IN  IF IsRaised(fn.res) \/ isError(fn.res) THEN fn
                 ELSE callWith(fn.res, evalExpressions(node.Arguments, 1, env, <<>>, fn.st),
                               env)
        ELSE IF k = "ArrayLiteral"
        THEN arrayOf(evalExpressions(node.Elements, 1, env, <<>>, st))
        ELSE IF k = "IndexExpression"
        THEN LET left == Eval(node.Left, env, st)
             IN  IF IsRaised(left.res) \/ isError(left.res) THEN left
                 ELSE indexWith(left.res, Eval(node.Index, env, left.st), env)
        ELSE IF k = "HashLiteral"
        THEN logResult("hashres", 0, env, "",
                       evalHashLiteral(node, env,
                           Emit(st, Ev("hash", 0, env, "", Obj("PAIRS", node.Pairs, 0)))))
        ELSE Out(None, st)

(***************************************************************************)
(* The programs explored, as the parser builds them from the source text   *)
(* given beside each.  An if node labelled L has its consequence block     *)
(* labelled L + 1 and its alternative block labelled L + 2; a function     *)
(* body is a block labelled like any other.                                *)
(***************************************************************************)
IntLit(v) == IntegerLiteral(v)
Expr(lbl, e) == ExpressionStatement(lbl, e)
IfElse(lbl, c, cons, alt) ==
    IfExpression(lbl, c, BlockStatement(lbl + 1, cons), BlockStatement(lbl + 2, alt))
IfOnly(lbl, c, cons) == IfExpression(lbl, c, BlockStatement(lbl + 1, cons), NoNode)
Fn(lbl, params, body) ==
    FunctionLiteral([i \in 1..Len(params) |-> Identifier(params[i])],
                    BlockStatement(lbl, body))
Call(f, args) == CallExpression(f, args)

\* The expressions used as operands and conditions; b is a free label.
NCond == 15
Cond(c, b) ==
    IF c = 1 THEN Boolean(TRUE)                                  \* true
    ELSE IF c = 2 THEN Boolean(FALSE)                            \* false
    ELSE IF c = 3 THEN IntLit(0)                                    \* 0
    ELSE IF c = 4 THEN IntLit(MaxInt)                               \* 2
    ELSE IF c = 5 THEN StringLiteral("")                         \* ""
    ELSE IF c = 6 THEN IfOnly(b, Boolean(FALSE), <<Expr(b + 3, IntLit(1))>>)
                                                                 \* if (false) { 1 }
    ELSE IF c = 7 THEN Fn(b, <<>>, <<>>)                         \* function() {}
    ELSE IF c = 8 THEN Call(Fn(b, <<>>, <<>>), <<>>)             \* function() {}()
    ELSE IF c = 9 THEN PrefixExpression("-", Boolean(TRUE))      \* -true
    ELSE IF c = 10 THEN Call(Identifier("puts"), <<>>)           \* puts()
    ELSE IF c = 11 THEN IfOnly(b, Boolean(TRUE), <<LetStatement(b + 3, "q", IntLit(1))>>)
                                                                 \* if (true) { let q = 1; }
    ELSE IF c = 12 THEN InfixExpression(IntLit(1), "<", IntLit(2))  \* (1 < 2)
    ELSE IF c = 13 THEN ArrayLiteral(<<>>)                       \* []
    ELSE IF c = 14 THEN HashLiteral(<<>>)                        \* {}
    ELSE ArrayLiteral(<<IntLit(0)>>)                             \* [0]

\* The statement pool of the generated programs; b is the statement's label.
NPool == MaxInt + 8
Stmt(k, b) ==
    IF k <= MaxInt + 1 THEN Expr(b, IntLit(k - 1))                  \* 0;  1;  2;
    ELSE IF k = MaxInt + 2 THEN LetStatement(b, "a", IntLit(1))     \* let a = 1;
    ELSE IF k = MaxInt + 3 THEN ReturnStatement(b, IntLit(7))       \* return 7;
    ELSE IF k = MaxInt + 4 THEN Expr(b, PrefixExpression("-", Boolean(TRUE)))
                                                                 \* -true;
    ELSE IF k = MaxInt + 5 THEN Expr(b, Call(Identifier("puts"), <<IntLit(3)>>))
                                                                 \* puts(3);
    ELSE IF k = MaxInt + 6
         THEN Expr(b, IfOnly(b + 1, Boolean(TRUE), <<ReturnStatement(b + 4, IntLit(4))>>))
                                                                 \* if (true) { return 4; }
    ELSE IF k = MaxInt + 7
         THEN LetStatement(b, "b", PrefixExpression("-", Boolean(TRUE)))
                                                                 \* let b = -true;
    ELSE Expr(b, Identifier("a"))                                \* a;

\* function(<n parameters>) { puts(9); 5 }(<m arguments>); 4;
PNames == <<"x", "y", "z">>
ArityProgram(n, m) ==
    Program(<<Expr(100, Call(Fn(110, SubSeq(PNames, 1, n),
                                <<Expr(111, Call(Identifier("puts"), <<IntLit(9)>>)),
                                  Expr(112, IntLit(5))>>),
                             [i \in 1..m |-> IntLit(i)])),
              Expr(200, IntLit(4))>>)

\* function() { if (c1) { if (c2) { return 10; } 20 } else { return 30; } 40 }(); 4;
NestedReturnProgram(c1, c2) ==
    Program(<<
      Expr(100, Call(Fn(110, <<>>, <<
        Expr(111, IfElse(120, Cond(c1, 150),
                         <<Expr(130, IfOnly(140, Cond(c2, 160),
                                            <<ReturnStatement(145, IntLit(10))>>)),
                           Expr(131, IntLit(20))>>,
                         <<ReturnStatement(132, IntLit(30))>>)),
        Expr(112, IntLit(40))>>), <<>>)),
      Expr(200, IntLit(4))>>)

\* Programs in which a ReturnValue or an Error meets a binding:
\*   1: let x = if (true) { return 1; }; 7;
\*   2: function() { let x = if (true) { return 1; }; 5 }(); 7;
\*   3: function(p) { 5 }(if (true) { return 1; }); 7;
\*   4: let x = -true; 7;
\*   5: function(p) { 5 }(-true); 7;
\*   6: let x = function() { return 1; }(); 7;
\*   7: function() { if (true) { let x = if (true) { return 1; }; 5 } 6 }(); 7;
\*   8: function() { if (true) { return if (true) { return 1; }; 5 } 6 }(); 7;
LeakProgram(n) ==
    LET ret == IfOnly(120, Boolean(TRUE), <<ReturnStatement(125, IntLit(1))>>)
        err == PrefixExpression("-", Boolean(TRUE))
        s1 == IF n = 1 THEN LetStatement(100, "x", ret)
              ELSE IF n = 2
              THEN Expr(100, Call(Fn(110, <<>>, <<LetStatement(111, "x", ret),
                                                 Expr(112, IntLit(5))>>), <<>>))
              ELSE IF n = 3
              THEN Expr(100, Call(Fn(110, <<"p">>, <<Expr(112, IntLit(5))>>), <<ret>>))
              ELSE IF n = 4 THEN LetStatement(100, "x", err)
              ELSE IF n = 5
              THEN Expr(100, Call(Fn(110, <<"p">>, <<Expr(112, IntLit(5))>>), <<err>>))
              ELSE IF n = 6
              THEN LetStatement(100, "x", Call(Fn(110, <<>>,
                                                  <<ReturnStatement(111, IntLit(1))>>), <<>>))
              ELSE Expr(100, Call(Fn(110, <<>>, <<
                     Expr(111, IfOnly(130, Boolean(TRUE), <<
                       IF n = 7 THEN LetStatement(135, "x", ret)
                       ELSE ReturnStatement(135, ret),
                       Expr(136, IntLit(5))>>)),
                     Expr(112, IntLit(6))>>), <<>>))
    IN  Program(<<s1, Expr(200, IntLit(7))>>)
NLeak == 8

\* [let x = 9;] let newAdder = function(x) { function(y) { x + y }; };
\* let addTwo = newAdder(v); addTwo(w);
NewAdderProgram(v, w, callerBinds) ==
    LET adder == Fn(210, <<"x">>, <<Expr(211, Fn(220, <<"y">>,
                     <<Expr(221, InfixExpression(Identifier("x"), "+",
                                                 Identifier("y")))>>))>>)
        body == <<LetStatement(200, "newAdder", adder),
                  LetStatement(300, "addTwo", Call(Identifier("newAdder"), <<IntLit(v)>>)),
                  Expr(400, Call(Identifier("addTwo"), <<IntLit(w)>>))>>
    IN  Program(IF callerBinds = 1 THEN <<LetStatement(100, "x", IntLit(9))>> \o body
                ELSE body)

\* let f = function() { g }; let g = v; f();
LateBindingProgram(v) ==
    Program(<<LetStatement(100, "f", Fn(110, <<>>, <<Expr(111, Identifier("g"))>>)),
              LetStatement(200, "g", IntLit(v)),
              Expr(300, Call(Identifier("f"), <<>>))>>)

\* [1, ..., n]
IntArray(n) == ArrayLiteral([k \in 1..n |-> IntLit(k)])

\* i as the parser builds it: a literal, or the negation of one
IntExpr(i) == IF i < 0 THEN PrefixExpression("-", IntLit(0 - i)) ELSE IntLit(i)

\* [1, ..., n][i];
IndexProgram(n, i) == Program(<<Expr(100, IndexExpression(IntArray(n), IntExpr(i)))>>)

\* l[x]; for operand expressions l and x
IndexAnyProgram(l, x) ==
    Program(<<Expr(100, IndexExpression(Cond(l, 110), Cond(x, 120)))>>)

\* {k: 1};
HashProgram(k) == Program(<<Expr(100, HashLiteral(<<<<Cond(k, 110), IntLit(1)>>>>))>>)

\* {k: 1}[x];
HashIndexProgram(k, x) ==
    Program(<<Expr(100, IndexExpression(HashLiteral(<<<<Cond(k, 110), IntLit(1)>>>>),
                                        Cond(x, 120)))>>)

\* The argument expressions of the calls of builtins; b is a free label.
NArg == 9
Arg(a, b) ==
    IF a = 1 THEN IntLit(1)                                      \* 1
    ELSE IF a = 2 THEN StringLiteral("ab")                       \* "ab"
    ELSE IF a = 3 THEN ArrayLiteral(<<>>)                        \* []
    ELSE IF a = 4 THEN IntArray(MaxLen)                          \* [1, 2, 3]
    ELSE IF a = 5 THEN Call(Identifier("push"), <<IntArray(1), IntLit(2)>>)
                                                                 \* push([1], 2)
    ELSE IF a = 6 THEN HashLiteral(<<>>)                         \* {}
    ELSE IF a = 7 THEN IfOnly(b, Boolean(FALSE), <<Expr(b + 3, IntLit(1))>>)
                                                                 \* if (false) { 1 }
    ELSE IF a = 8 THEN IfOnly(b, Boolean(TRUE), <<LetStatement(b + 3, "q", IntLit(1))>>)
                                                                 \* if (true) { let q = 1; }
    ELSE Identifier("len")                                       \* len

\* name(args...);
BuiltinProgram(name, args) ==
    Program(<<Expr(100, Call(Identifier(name),
                             [k \in 1..Len(args) |-> Arg(args[k], 100 + 10 * k)]))>>)

\* Programs that bind the name of a builtin:
\*   1: let len = 1; len;
\*   2: let len = 1; len("ab");
\*   3: function(len) { len }(1); len("ab");
\*   4: function() { let len = 1; len }(); len("ab");
NShadow == 4
ShadowProgram(n) ==
    LET lenOfAb == Expr(200, Call(Identifier("len"), <<StringLiteral("ab")>>))
    IN  IF n = 1 THEN Program(<<LetStatement(100, "len", IntLit(1)),
                                Expr(200, Identifier("len"))>>)
        ELSE IF n = 2 THEN Program(<<LetStatement(100, "len", IntLit(1)), lenOfAb>>)
        ELSE IF n = 3
        THEN Program(<<Expr(100, Call(Fn(110, <<"len">>, <<Expr(111, Identifier("len"))>>),
                                      <<IntLit(1)>>)), lenOfAb>>)
        ELSE Program(<<Expr(100, Call(Fn(110, <<>>, <<LetStatement(111, "len", IntLit(1)),
                                                     Expr(112, Identifier("len"))>>),
                                      <<>>)), lenOfAb>>)

\* The operands of the infix expressions; b is a free label.
NOperand == 14
Operand(k, b) ==
    IF k = 1 THEN Boolean(TRUE)                                  \* true
    ELSE IF k = 2 THEN Boolean(FALSE)                            \* false
    ELSE IF k = 3 THEN IntLit(1)                                 \* 1
    ELSE IF k = 4 THEN StringLiteral("ab")                       \* "ab"
    ELSE IF k = 5 THEN StringLiteral("c")                        \* "c"
    ELSE IF k = 6 THEN IfOnly(b, Boolean(FALSE), <<Expr(b + 3, IntLit(1))>>)
                                                                 \* if (false) { 1 }
    ELSE IF k = 7 THEN Fn(b, <<>>, <<>>)                         \* function() {}
    ELSE IF k = 8 THEN Call(Identifier("puts"), <<>>)            \* puts()
    ELSE IF k = 9 THEN ArrayLiteral(<<>>)                        \* []
    ELSE IF k = 10 THEN HashLiteral(<<>>)                        \* {}
    ELSE IF k = 11 THEN InfixExpression(IntLit(1), "<", IntLit(2))  \* (1 < 2)
    ELSE IF k = 12 THEN Identifier("len")                        \* len
    ELSE IF k = 13 THEN IntLit(0)                                \* 0
    ELSE Call(Fn(b, <<>>, <<>>), <<>>)                           \* function() {}()

\* l o r; for operand expressions l and r and the o-th infix operator
InfixOps == <<"==", "!=", "+", "-", "*", "/", "<", ">">>
InfixProgram(l, o, r) ==
    Program(<<Expr(100, InfixExpression(Operand(l, 110), InfixOps[o], Operand(r, 120)))>>)

\* puts(v)
Puts(v) == Call(Identifier("puts"), <<v>>)

\* The callees of the call programs; b is a free label.
NCallee == 5
Callee(c, b) ==
    IF c = 1 THEN Identifier("puts")                             \* puts
    ELSE IF c = 2 THEN PrefixExpression("-", StringLiteral("s")) \* -"s"
    ELSE IF c = 3 THEN Fn(b, <<"x", "y">>, <<Expr(b + 1, Puts(StringLiteral("f")))>>)
                                                                 \* function(x, y) { puts("f") }
    ELSE IF c = 4 THEN Puts(StringLiteral("c"))                  \* puts("c")
    ELSE Call(Fn(b, <<>>, <<Expr(b + 1, Puts(StringLiteral("c"))),
                            Expr(b + 2, PrefixExpression("-", StringLiteral("s")))>>),
              <<>>)                                  \* function() { puts("c"); -"s" }()

\* The k-th argument of a call program: puts(k), -true or k
NCallArg == 3
CallArg(a, k) ==
    IF a = 1 THEN Puts(IntLit(k))
    ELSE IF a = 2 THEN PrefixExpression("-", Boolean(TRUE))
    ELSE IntLit(k)

\* callee(args...);
CallProgram(c, args) ==
    Program(<<Expr(100, Call(Callee(c, 110),
                             [k \in 1..Len(args) |-> CallArg(args[k], k)]))>>)

\* Programs that apply function literals whose parameters and lets have names
\* bound outside, or used by another call:
\*   1: let x = 1; function(x) { let y = 2; }(v);
\*   2: let x = 1; let y = 2; function(x) { let y = 3; let x = 4; 7 }(v); 8;
\*   3: function(x) { let a = 1; 0 }(v); function(y) { a }(v);
\*   4: let x = 1; function(x) { function(x) { let x = 3; 0 }(2); let y = 4; 0 }(v); 9;
\*   5: function(x) { 0 }(v); function() { x }();
NScope == 5
ScopeProgram(n, v) ==
    IF n = 1
    THEN Program(<<LetStatement(100, "x", IntLit(1)),
                   Expr(200, Call(Fn(210, <<"x">>, <<LetStatement(211, "y", IntLit(2))>>),
                                  <<IntLit(v)>>))>>)
    ELSE IF n = 2
    THEN Program(<<LetStatement(100, "x", IntLit(1)),
                   LetStatement(200, "y", IntLit(2)),
                   Expr(300, Call(Fn(310, <<"x">>, <<LetStatement(311, "y", IntLit(3)),
                                                     LetStatement(312, "x", IntLit(4)),
                                                     Expr(313, IntLit(7))>>),
                                  <<IntLit(v)>>)),
                   Expr(400, IntLit(8))>>)
    ELSE IF n = 3
    THEN Program(<<Expr(100, Call(Fn(110, <<"x">>, <<LetStatement(111, "a", IntLit(1)),
                                                     Expr(112, IntLit(0))>>),
                                  <<IntLit(v)>>)),
                   Expr(200, Call(Fn(210, <<"y">>, <<Expr(211, Identifier("a"))>>),
                                  <<IntLit(v)>>))>>)
    ELSE IF n = 4
    THEN Program(<<LetStatement(100, "x", IntLit(1)),
                   Expr(200, Call(Fn(210, <<"x">>,
                       <<Expr(211, Call(Fn(220, <<"x">>, <<LetStatement(221, "x", IntLit(3)),
                                                           Expr(222, IntLit(0))>>),
                                        <<IntLit(2)>>)),
                         LetStatement(212, "y", IntLit(4)),
                         Expr(213, IntLit(0))>>),
                                  <<IntLit(v)>>)),
                   Expr(300, IntLit(9))>>)
    ELSE Program(<<Expr(100, Call(Fn(110, <<"x">>, <<Expr(111, IntLit(0))>>),
                                  <<IntLit(v)>>)),
                   Expr(200, Call(Fn(210, <<>>, <<Expr(211, Identifier("x"))>>), <<>>))>>)

\* The programs are named by [fam, idx].
ProgId(fam, idx) == [fam |-> fam, idx |-> idx]
ProgIds ==
    {ProgId("seq", idx) : idx \in UNION {[1..n -> 1..NPool] : n \in 0..MaxStmts}}
    \cup {ProgId("bang", <<c>>) : c \in 1..NCond}
    \cup {ProgId("bangbang", <<c>>) : c \in 1..NCond}
    \cup {ProgId("if", <<c, alt, v>>) : c \in 1..NCond, alt \in 0..1, v \in 0..MaxInt}
    \cup {ProgId("arity", <<n, m>>) : n \in 0..3, m \in 0..3}
    \cup {ProgId("nested", <<c1, c2>>) : c1 \in 1..NCond, c2 \in 1..NCond}
    \cup {ProgId("leak", <<n>>) : n \in 1..NLeak}
    \cup {ProgId("adder", <<v, w, cb>>) : v \in 0..MaxInt, w \in 0..MaxInt, cb \in 0..1}
    \cup {ProgId("late", <<v>>) : v \in 0..MaxInt}
    \cup {ProgId("index", <<n, i>>) : n \in 0..MaxLen, i \in (0 - 1)..(MaxLen + 2)}
    \cup {ProgId("indexany", <<l, x>>) : l \in 1..NCond, x \in 1..NCond}
    \cup {ProgId("hash", <<k>>) : k \in 1..NCond}
    \cup {ProgId("shadow", <<n>>) : n \in 1..NShadow}
    \cup {ProgId("builtin", <<b, args>>) :
              b \in 1..Len(BuiltinNames),
              args \in UNION {[1..n -> 1..NArg] : n \in 0..MaxArgs}}
    \cup {ProgId("hashindex", <<k, x>>) : k \in 1..NCond, x \in 1..NCond}
    \cup {ProgId("scope", <<n, v>>) : n \in 1..NScope, v \in 0..MaxInt}
    \cup {ProgId("call", <<c>> \o args) :
              c \in 1..NCallee,
              args \in UNION {[1..n -> 1..NCallArg] : n \in 0..MaxArgs}}
    \cup {ProgId("infix", <<l, o, r>>) :
              l \in 1..NOperand, o \in 1..Len(InfixOps), r \in 1..NOperand}

ProgramOf(p) ==
    LET i == p.idx
    IN  IF p.fam = "seq" THEN Program([k \in 1..Len(i) |-> Stmt(i[k], 100 * k)])
        ELSE IF p.fam = "bang"                                   \* !c;
        THEN Program(<<Expr(100, PrefixExpression("!", Cond(i[1], 110)))>>)
        ELSE IF p.fam = "bangbang"                               \* !!c;
        THEN Program(<<Expr(100, PrefixExpression("!",
                                   PrefixExpression("!", Cond(i[1], 110))))>>)
        ELSE IF p.fam = "if"              \* if (c) { v } [else { v + 1 }]
        THEN Program(<<Expr(100,
                 IF i[2] = 1
                 THEN IfElse(110, Cond(i[1], 120), <<Expr(113, IntLit(i[3]))>>,
                             <<Expr(114, InfixExpression(IntLit(i[3]), "+", IntLit(1)))>>)
                 ELSE IfOnly(110, Cond(i[1], 120), <<Expr(113, IntLit(i[3]))>>))>>)
        ELSE IF p.fam = "arity" THEN ArityProgram(i[1], i[2])
        ELSE IF p.fam = "nested" THEN NestedReturnProgram(i[1], i[2])
        ELSE IF p.fam = "leak" THEN LeakProgram(i[1])
        ELSE IF p.fam = "adder" THEN NewAdderProgram(i[1], i[2], i[3])
        ELSE IF p.fam = "late" THEN LateBindingProgram(i[1])
        ELSE IF p.fam = "index" THEN IndexProgram(i[1], i[2])
        ELSE IF p.fam = "indexany" THEN IndexAnyProgram(i[1], i[2])
        ELSE IF p.fam = "hash" THEN HashProgram(i[1])
        ELSE IF p.fam = "shadow" THEN ShadowProgram(i[1])
        ELSE IF p.fam = "builtin" THEN BuiltinProgram(BuiltinNames[i[1]], i[2])
        ELSE IF p.fam = "infix" THEN InfixProgram(i[1], i[2], i[3])
        ELSE IF p.fam = "call" THEN CallProgram(i[1], Tail(i))
        ELSE IF p.fam = "scope" THEN ScopeProgram(i[1], i[2])
        ELSE HashIndexProgram(i[1], i[2])

(***************************************************************************)
(* The evaluator specification: evalProgram(ParseProgram(text),            *)
(* Environment()), one iteration of its statement loop per step.           *)
(***************************************************************************)
Init ==
    /\ prog \in ProgIds
    /\ envs = <<Environment(0)>>
    /\ nobj = FirstFreeId + 1
    /\ res = Obj("UNDEFINED", 0, FirstFreeId + 1)     \* res = tsobject.Object()
    /\ pc = 1
    /\ status = "running"
    /\ results = <<>>
    /\ log = <<>>
    /\ lists = <<>>
    /\ lx = NoLexer
    /\ ps = NoParser
    /\ op = NoOp
    /\ got = NoGot
    /\ nsets = 0

\* for statement in program.Statements: res = Eval(statement, env); ...
EvalStatement ==
    /\ status = "running"
    /\ pc <= Len(ProgramOf(prog).Statements)
    /\ \E s \in {evalProgramStep(ProgramOf(prog).Statements[pc], 1,
                                   [envs |-> envs, nobj |-> nobj, lists |-> lists,
                                    log |-> <<>>])} :
           /\ envs' = s.st.envs
           /\ lists' = s.st.lists
           /\ nobj' = s.st.nobj
           /\ log' = s.st.log
           /\ res' = s.res
           /\ results' = Append(results, s.raw)
           /\ status' = IF IsRaised(s.raw) THEN "raised"
                        ELSE IF s.stop THEN "returned" ELSE "running"
           /\ pc' = IF s.stop THEN pc ELSE pc + 1
    /\ UNCHANGED <<prog, op, got, nsets, lx, ps>>

\* the loop is exhausted: return res
ProgramReturn ==
    /\ status = "running"
    /\ pc > Len(ProgramOf(prog).Statements)
    /\ status' = "returned"
    /\ UNCHANGED <<envs, nobj, op, got, nsets, prog, pc, res, results, log, lists, lx, ps>>

Next == EvalStatement \/ ProgramReturn

Spec == Init /\ [][Next]_vars

(***************************************************************************)
(* Properties of the Environment, stated of SpecEnv.                       *)
(***************************************************************************)
\* The nearest frame of e's outer chain that binds name, 0 when no frame does.
RECURSIVE NearestFrame(_, _, _)
NearestFrame(h, e, name) ==
    IF name \in DOMAIN h[e].store THEN e
    ELSE IF h[e].outer = 0 THEN 0
    ELSE NearestFrame(h, h[e].outer, name)

\* C1: Environment.Get(name) returns found = true together with the object bound
\* under name in the nearest frame of the outer chain that binds it, and not-found
\* only when no frame of the whole chain binds the name.
C1_GetReturnsNearestBinding ==
    op.name = "Get" =>
        LET f == NearestFrame(envs, op.env, op.key)
        IN  IF f = 0 THEN ~got.ok
            ELSE got.ok /\ Is(got.val, envs[f].store[op.key])

\* C2: a Set on an environment changes the binding of that name in that frame only:
\* every other environment, the other names of the frame and the outer links are
\* as before, also when an outer frame binds the same name.
C2_SetBindsLocalFrameOnly ==
    [][nsets' # nsets =>
         /\ Len(envs') = Len(envs)
         /\ \A f \in 1..Len(envs) :
               IF f = op'.env
               THEN /\ envs'[f].outer = envs[f].outer
                    /\ DOMAIN envs'[f].store = DOMAIN envs[f].store \cup {op'.key}
                    /\ \A n \in DOMAIN envs[f].store \ {op'.key} :
                          envs'[f].store[n] = envs[f].store[n]
               ELSE envs'[f] = envs[f]]_vars

\* C2: a Set was made on an inner environment under a name its outer environment
\* binds to another object, and the outer binding is still that other object.
C2_ShadowingSet ==
    /\ op.name = "Set"
    /\ envs[op.env].outer # 0
    /\ op.key \in DOMAIN envs[envs[op.env].outer].store
    /\ ~Is(envs[envs[op.env].outer].store[op.key], envs[op.env].store[op.key])

(***************************************************************************)
(* Properties of the evaluator, stated of Spec.                            *)
(***************************************************************************)
\* C3: a function's body is evaluated in the scope the function was defined in, not
\* the caller's: `[let x = 9;] let newAdder = function(x) { function(y) { x + y }; };
\* let addTwo = newAdder(v); addTwo(w);` evaluates to the Integer v + w, whether or
\* not the calling scope binds x.
C3_AdderAddsCapturedValue ==
    (prog.fam = "adder" /\ status # "running") =>
        /\ status = "returned"
        /\ res.Type = "INTEGER"
        /\ res.Value = prog.idx[1] + prog.idx[2]

\* C4: a function sees the bindings made in its defining environment after the
\* function literal was evaluated: `let f = function() { g }; let g = v; f();`
\* evaluates to the Integer v.
C4_LaterBindingSeenByCall ==
    (prog.fam = "late" /\ status # "running") =>
        /\ status = "returned"
        /\ res.Type = "INTEGER"
        /\ res.Value = prog.idx[1]

\* A statement result that ends evalProgram: a ReturnValue or an Error.
EndsProgram(o) == o.Type = "RETURN_VALUE" \/ o.Type = "ERROR"

\* C5: evalProgram evaluates the statements in order and stops at the first one
\* whose result is a ReturnValue or an Error: no statement before the last evaluated
\* one gave such a result, the loop goes on only after a result that is neither, the
\* program's result is the unwrapped returned value or that Error, and otherwise,
\* with every statement evaluated, the result of the last statement.
C5_ProgramStopsAtFirstReturnOrError ==
    LET n == Len(results)
        stmts == ProgramOf(prog).Statements
    IN  /\ n <= Len(stmts)
        /\ \A k \in 1..(n - 1) : ~IsRaised(results[k]) /\ ~EndsProgram(results[k])
        /\ status = "running" =>
              /\ n = pc - 1
              /\ n > 0 => ~EndsProgram(results[n]) /\ Is(res, results[n])
        /\ status = "returned" =>
              IF n > 0 /\ EndsProgram(results[n])
              THEN IF results[n].Type = "RETURN_VALUE" THEN Is(res, results[n].Value)
                   ELSE Is(res, results[n])
              ELSE /\ n = Len(stmts)
                   /\ n > 0 => Is(res, results[n])

\* C5: the program returned at a statement that is not its last one, with the value
\* a ReturnValue wrapped.
C5_ReturnedBeforeLastStatement ==
    /\ status = "returned"
    /\ Len(results) > 0
    /\ Len(results) < Len(ProgramOf(prog).Statements)
    /\ results[Len(results)].Type = "RETURN_VALUE"
    /\ Is(res, results[Len(results)].Value)

\* C6: once a `return` was executed in the environment of a function call, no
\* further statement of that call's body is evaluated (the blocks pass the wrapper
\* upward), the call expression yields no ReturnValue wrapper, and a statement that
\* is a call therefore never ends the caller's program the way a return does.
C6_ReturnLeavesBodyAndStopsAtCall ==
    /\ \A i, j \in 1..Len(log) :
          (i < j /\ log[i].ev = "return" /\ log[i].env # 1 /\ log[j].ev = "stmt")
              => log[j].env # log[i].env
    /\ \A i \in 1..Len(log) : log[i].ev = "callres" => log[i].obj.Type # "RETURN_VALUE"

\* C7: no binding of any environment holds a ReturnValue wrapper or an Error.
C7_NoWrapperOrErrorBound ==
    \A e \in 1..Len(envs) : \A n \in DOMAIN envs[e].store :
        envs[e].store[n].Type \notin {"RETURN_VALUE", "ERROR"}

\* A "call" step applying a user function to a number of arguments that differs
\* from its number of parameters.
ArityMismatch(e) ==
    /\ e.ev = "call"
    /\ e.obj.Value.Fn.Type = "FUNCTION"
    /\ Len(e.obj.Value.Args) # Len(e.obj.Value.Fn.Value.Parameters)

\* C8: applying a user function to a number of arguments different from its number
\* of parameters yields an Error at once: the very next step of the evaluation is
\* the call returning an Error, so that no parameter was bound, the body was not
\* entered and no host exception left the call.
C8_ArityMismatchYieldsError ==
    \A i \in 1..Len(log) : ArityMismatch(log[i]) =>
        /\ i < Len(log)
        /\ log[i + 1].ev = "callres"
        /\ log[i + 1].obj.Type = "ERROR"

\* C8: a function was applied to fewer arguments than it has parameters, and the
\* call returned an Error.
C8_TooFewArguments ==
    \E i \in 1..(Len(log) - 1) :
        /\ ArityMismatch(log[i])
        /\ Len(log[i].obj.Value.Args) < Len(log[i].obj.Value.Fn.Value.Parameters)
        /\ log[i + 1].ev = "callres"
        /\ log[i + 1].obj.Type = "ERROR"

\* The falsy objects: the Null value and boolean false.
Falsy(o) == o.Type = "NULL" \/ (o.Type = "BOOLEAN" /\ o.Value = FALSE)

\* Step i is `!` applied to an operand, step i + 1 its result.
BangAt(i) ==
    /\ i < Len(log)
    /\ log[i].ev = "prefix" /\ log[i].name = "!"
    /\ log[i + 1].ev = "prefixres"

\* C9: `!x` is the TRUE singleton when x is Null or false and the FALSE singleton for
\* every other x, `!!x` is TRUE exactly when x is neither, and an if whose condition
\* is no Error enters its consequence exactly when the condition is neither.
C9_OnlyNullAndFalseAreFalsy ==
    /\ \A i \in 1..Len(log) : (log[i].ev = "prefix" /\ log[i].name = "!") =>
          /\ BangAt(i)
          /\ Is(log[i + 1].obj, IF Falsy(log[i].obj) THEN TrueObj ELSE FalseObj)
    /\ \A i \in 1..(Len(log) - 3) :
          (BangAt(i) /\ BangAt(i + 2) /\ Is(log[i + 2].obj, log[i + 1].obj)) =>
              Is(log[i + 3].obj, IF Falsy(log[i].obj) THEN FalseObj ELSE TrueObj)
    /\ \A i \in 1..Len(log) : (log[i].ev = "if" /\ log[i].obj.Type # "ERROR") =>
          (~Falsy(log[i].obj) <=>
              /\ i < Len(log)
              /\ log[i + 1].ev = "block"
              /\ log[i + 1].label = log[i].label + 1)

\* C9: `!!0` was evaluated and gave the TRUE singleton.
C9_DoubleBangOfZero ==
    \E i \in 1..(Len(log) - 3) :
        /\ BangAt(i) /\ BangAt(i + 2)
        /\ log[i].obj.Type = "INTEGER" /\ log[i].obj.Value = 0
        /\ Is(log[i + 2].obj, log[i + 1].obj)
        /\ Is(log[i + 3].obj, TrueObj)

\* The step at which the if-expression begun at step i returns, 0 when it does not.
IfResOf(i) ==
    LET js == {j \in (i + 1)..Len(log) :
                  /\ log[j].ev = "ifres"
                  /\ log[j].label = log[i].label
                  /\ log[j].env = log[i].env}
    IN  IF js = {} THEN 0 ELSE CHOOSE j \in js : \A k \in js : j <= k

\* The entries into a block of the if-expression begun at step i, up to step to.
BlocksOf(i, to) ==
    {k \in (i + 1)..to :
        /\ log[k].ev = "block"
        /\ log[k].env = log[i].env
        /\ log[k].label \in {log[i].label + 1, log[i].label + 2}}

\* C10: an if-expression whose condition is no Error enters the consequence when
\* the condition is truthy, the alternative when it is falsy and there is one, and
\* is the Null singleton otherwise; it returns what the entered block returned, it
\* enters no second block, and a condition that is an Error is returned with no
\* block entered.
C10_IfYieldsChosenBlock ==
    \A i \in 1..Len(log) : log[i].ev = "if" =>
        LET c == log[i].obj
            e == log[i].env
            j == IfResOf(i)
            B == IF ~Falsy(c) THEN log[i].label + 1
                 ELSE IF log[i].name = "else" THEN log[i].label + 2
                 ELSE 0
        IN  IF c.Type = "ERROR" THEN j = i + 1 /\ Is(log[j].obj, c)
            ELSE IF B = 0 THEN j = i + 1 /\ Is(log[j].obj, NULL)
            ELSE /\ i < Len(log)
                 /\ log[i + 1].ev = "block" /\ log[i + 1].label = B /\ log[i + 1].env = e
                 /\ Cardinality(BlocksOf(i, IF j = 0 THEN Len(log) ELSE j)) = 1
                 /\ j # 0 =>
                       /\ log[j - 1].ev = "blockres"
                       /\ log[j - 1].label = B /\ log[j - 1].env = e
                       /\ Is(log[j].obj, log[j - 1].obj)

\* C10: an if with an alternative had a falsy condition, entered the alternative
\* and returned its value.
C10_FalsyTakesAlternative ==
    \E i \in 1..(Len(log) - 1) :
        /\ log[i].ev = "if" /\ log[i].name = "else" /\ Falsy(log[i].obj)
        /\ log[i + 1].ev = "block" /\ log[i + 1].label = log[i].label + 2
        /\ IfResOf(i) # 0
        /\ log[IfResOf(i)].obj.Type = "INTEGER"

(***************************************************************************)
(* Properties of arrays, hashes and builtins, stated of Spec.              *)
(***************************************************************************)
\* The index expressions of the log whose operands are an Array and an Integer.
ArrayIndexAt(i) ==
    /\ log[i].ev = "index"
    /\ log[i].obj.Value.Left.Type = "ARRAY"
    /\ log[i].obj.Value.Index.Type = "INTEGER"

\* C11: an index expression on an Array of n elements with an Integer index i
\* returns the element at position i when 0 <= i < n and the Null singleton
\* otherwise; it returns no Error and raises no host exception.
C11_ArrayIndexYieldsElementOrNull ==
    \A i \in 1..Len(log) :
        ArrayIndexAt(i) =>
            /\ i < Len(log)
            /\ log[i + 1].ev = "indexres"
            /\ LET elems == log[i].lists[log[i].obj.Value.Left.Value]
                   v == log[i].obj.Value.Index.Value
               IN  IF v >= 0 /\ v < Len(elems) THEN Is(log[i + 1].obj, elems[v + 1])
                   ELSE Is(log[i + 1].obj, NULL)

\* The types of the objects usable as hash keys.
HashableTypes == {"INTEGER", "BOOLEAN", "STRING"}

\* The hash literals of the log whose keys and values are all literals of a
\* hashable type.
HashLiteralAt(i) ==
    /\ log[i].ev = "hash"
    /\ \A j \in 1..Len(log[i].obj.Value) :
          /\ log[i].obj.Value[j][1].kind \in {"IntegerLiteral", "Boolean", "StringLiteral"}
          /\ log[i].obj.Value[j][2].kind \in {"IntegerLiteral", "Boolean", "StringLiteral"}

\* The pairs of the Hash object h whose key equals the key object k.
PairsUnder(h, k) ==
    {pr \in {h.Value[j] : j \in 1..Len(h.Value)} :
        pr.Key.Type = k.Type /\ pr.Key.Value = k.Value}

\* C12: a hash literal whose keys are Integer, Boolean or String objects evaluates
\* to a Hash; indexing a Hash with an object of another type returns an Error,
\* with a hashable key the Hash does not contain it returns Undefined, and with a
\* key it contains it returns the value stored under that key.
C12_HashLiteralAndIndex ==
    \A i \in 1..Len(log) :
        /\ HashLiteralAt(i) =>
              /\ i < Len(log)
              /\ log[i + 1].ev = "hashres"
              /\ log[i + 1].obj.Type = "HASH"
        /\ (log[i].ev = "index" /\ log[i].obj.Value.Left.Type = "HASH") =>
              /\ i < Len(log)
              /\ log[i + 1].ev = "indexres"
              /\ LET h == log[i].obj.Value.Left
                     k == log[i].obj.Value.Index
                 IN  IF k.Type \notin HashableTypes THEN log[i + 1].obj.Type = "ERROR"
                     ELSE IF PairsUnder(h, k) = {} THEN Is(log[i + 1].obj, UNDEFINED)
                     ELSE \E pr \in PairsUnder(h, k) : Is(log[i + 1].obj, pr.Value)

\* The applications of the builtin called name recorded in the log.
BuiltinCallAt(i, name) ==
    /\ log[i].ev = "call"
    /\ log[i].obj.Value.Fn.Type = "BUILTIN"
    /\ log[i].obj.Value.Fn.Value = name

\* The arguments of the application recorded at log[i].
ArgsAt(i) == log[i].obj.Value.Args

\* The applications of push to an Array and one more argument.
PushAt(i) ==
    /\ BuiltinCallAt(i, "push")
    /\ Len(ArgsAt(i)) = 2
    /\ ArgsAt(i)[1].Type = "ARRAY"

\* C13: push(arr, x) returns an Array whose elements are those of arr followed by
\* x, and arr holds after the call the elements it held before it.
C13_PushLeavesSourceUnchanged ==
    \A i \in 1..Len(log) :
        PushAt(i) =>
            /\ i < Len(log)
            /\ log[i + 1].ev = "callres"
            /\ log[i + 1].obj.Type = "ARRAY"
            /\ LET src == ArgsAt(i)[1].Value
                   before == log[i].lists[src]
               IN  /\ log[i + 1].lists[log[i + 1].obj.Value] = Append(before, ArgsAt(i)[2])
                   /\ log[i + 1].lists[src] = before

\* The applications of first, last or rest to exactly one Array.
ArrayFuncAt(i) ==
    /\ \E name \in {"first", "last", "rest"} : BuiltinCallAt(i, name)
    /\ Len(ArgsAt(i)) = 1
    /\ ArgsAt(i)[1].Type = "ARRAY"

\* C14: applied to one Array, first returns its element 0, last its final element
\* and rest a new Array holding all elements but the first; each returns Undefined
\* when the Array is empty, and none of them changes the Array it is given.
C14_FirstLastRest ==
    \A i \in 1..Len(log) :
        ArrayFuncAt(i) =>
            /\ i < Len(log)
            /\ log[i + 1].ev = "callres"
            /\ SubSeq(log[i + 1].lists, 1, Len(log[i].lists)) = log[i].lists
            /\ LET name == log[i].obj.Value.Fn.Value
                   elems == log[i].lists[ArgsAt(i)[1].Value]
                   r == log[i + 1].obj
               IN  IF elems = <<>> THEN Is(r, UNDEFINED)
                   ELSE IF name = "first" THEN Is(r, elems[1])
                   ELSE IF name = "last" THEN Is(r, elems[Len(elems)])
                   ELSE /\ r.Type = "ARRAY"
                        /\ ~Is(r, ArgsAt(i)[1])
                        /\ r.Value > Len(log[i].lists)
                        /\ log[i + 1].lists[r.Value] = Tail(elems)

\* rest has been applied to an Array of at least two elements and has returned.
C14_RestOfLongerArray ==
    \E i \in 1..Len(log) :
        /\ ArrayFuncAt(i)
        /\ BuiltinCallAt(i, "rest")
        /\ Len(log[i].lists[ArgsAt(i)[1].Value]) > 1
        /\ i < Len(log)
        /\ log[i + 1].ev = "callres"

\* The applications of a builtin to arguments that are all Objects.
BuiltinAppliedAt(i) ==
    /\ log[i].ev = "call"
    /\ log[i].obj.Value.Fn.Type = "BUILTIN"
    /\ \A k \in 1..Len(ArgsAt(i)) : IsObject(ArgsAt(i)[k])

\* The number of arguments the builtin called name accepts, 0 for any number.
Wants(name) == IF name = "puts" THEN 0 ELSE IF name = "push" THEN 2 ELSE 1

\* What the builtin applied at log[i] must have returned in r: an Error for a wrong
\* number or type of arguments, for len the length of a String or an Array, and
\* an Error naming the type of any other argument.
BuiltinResultOk(i, r) ==
    LET name == log[i].obj.Value.Fn.Value
        args == ArgsAt(i)
    IN  /\ IsObject(r)
        /\ (Wants(name) # 0 /\ Len(args) # Wants(name)) => r.Type = "ERROR"
        /\ (name \in {"first", "last", "rest", "push"} /\ Len(args) = Wants(name)
              /\ args[1].Type # "ARRAY") => r.Type = "ERROR"
        /\ (name = "len" /\ Len(args) = 1) =>
              IF args[1].Type = "STRING"
              THEN r.Type = "INTEGER" /\ r.Value = Len(args[1].Value)
              ELSE IF args[1].Type = "ARRAY"
              THEN r.Type = "INTEGER" /\ r.Value = Len(log[i].lists[args[1].Value])
              ELSE /\ r.Type = "ERROR"
                   /\ r.Value = "argument to 'len' not supported, got " \o args[1].Type

InfixAt(i) ==
    /\ i < Len(log)
    /\ log[i].ev = "infix"
    /\ log[i + 1].ev = "infixres" /\ log[i + 1].name = log[i].name

InfixOperandsAre(i, t) == log[i].obj.Value.Left.Type = t /\ log[i].obj.Value.Right.Type = t

\* What the operator of step i must return for two Strings.
StringInfixOk(i, r) ==
    IF log[i].name = "+"
    THEN /\ r.Type = "STRING"
         /\ r.Value = log[i].obj.Value.Left.Value \o log[i].obj.Value.Right.Value
    ELSE r.Type = "ERROR"

\* What the operator of step i must return for operands l and r that are neither
\* two Integers nor two Strings.
MixedInfixOk(operator, l, r, o) ==
    IF operator = "==" THEN Is(o, IF Is(l, r) THEN TrueObj ELSE FalseObj)
    ELSE IF operator = "!=" THEN Is(o, IF Is(l, r) THEN FalseObj ELSE TrueObj)
    ELSE /\ o.Type = "ERROR"
         /\ o.Value = (IF l.Type # r.Type THEN "type mismatch: " ELSE "unknown operator ")
                          \o l.Type \o " " \o operator \o " " \o r.Type

\* C24: for two operand objects that are not both Integer and not both String, ==
\* and != compare by identity and yield the TRUE or FALSE singleton, and every
\* other operator yields a "type mismatch" Error when the types differ and an
\* "unknown operator" Error when they are the same; for two Strings + yields the
\* concatenation and every other operator, == and != included, an Error.
C24_InfixOfOtherOperands ==
    \A i \in 1..Len(log) :
        (/\ log[i].ev = "infix"
         /\ ~IsNone(log[i].obj.Value.Left) /\ ~IsNone(log[i].obj.Value.Right)
         /\ ~InfixOperandsAre(i, "INTEGER")) =>
            /\ InfixAt(i)
            /\ IF InfixOperandsAre(i, "STRING")
               THEN StringInfixOk(i, log[i + 1].obj)
               ELSE MixedInfixOk(log[i].name, log[i].obj.Value.Left,
                                 log[i].obj.Value.Right, log[i + 1].obj)

\* "ab" == "ab" was evaluated and gave an Error.
C24_EqualStringsCompared ==
    \E i \in 1..Len(log) :
        /\ InfixAt(i) /\ log[i].name = "=="
        /\ InfixOperandsAre(i, "STRING")
        /\ log[i].obj.Value.Left.Value = log[i].obj.Value.Right.Value
        /\ log[i + 1].obj.Type = "ERROR"

\* The arguments of the call program, as a sequence of CallArg kinds.
CallArgs == Tail(prog.idx)

\* What puts writes for an object of the call programs.
Shown(o) ==
    IF o.Type = "STRING" THEN o.Value
    ELSE IF o.Type = "INTEGER" THEN ToString(o.Value)
    ELSE o.Type

\* Everything written by puts so far, in order.
PutsEvents == SelectSeq(log, LAMBDA e : e.ev = "puts")
Written == [j \in 1..Len(PutsEvents) |-> Shown(PutsEvents[j].obj)]

\* What the callee c of a call program writes when it is evaluated, and whether it
\* evaluates to an Error.
CalleeWrites(c) == IF c >= 4 THEN <<"c">> ELSE <<>>
CalleeFails(c) == c = 2 \/ c >= 5

\* The first argument that evaluates to an Error, Len(args) + 1 without one.
FirstErrorArg(args) ==
    IF \E k \in 1..Len(args) : args[k] = 2
    THEN CHOOSE k \in 1..Len(args) : args[k] = 2 /\ \A j \in 1..(k - 1) : args[j] # 2
    ELSE Len(args) + 1

\* What the arguments 1..n write when they are evaluated from left to right.
RECURSIVE ArgsWrite(_, _)
ArgsWrite(args, n) ==
    IF n = 0 THEN <<>>
    ELSE ArgsWrite(args, n - 1) \o (IF args[n] = 1 THEN <<ToString(n)>> ELSE <<>>)

\* The object of the last prefix expression evaluated.
LastPrefixResult ==
    log[CHOOSE i \in 1..Len(log) :
            /\ log[i].ev = "prefixres"
            /\ \A j \in (i + 1)..Len(log) : log[j].ev # "prefixres"].obj

StartsWith(s, t) == Len(t) <= Len(s) /\ SubSeq(s, 1, Len(t)) = t

\* The call program c(args...) has been evaluated.
CallEvaluated == prog.fam = "call" /\ Len(results) = 1

\* C25: a call evaluates the callee first and then the arguments from left to
\* right; when the callee is an Error no argument is evaluated, and at the first
\* argument that is an Error the remaining arguments are not evaluated, the function
\* is not applied, and the call's result is that Error.
C25_CalleeThenArgumentsUntilError ==
    CallEvaluated =>
        IF CalleeFails(prog.idx[1])
        THEN /\ Written = CalleeWrites(prog.idx[1])
             /\ results[1].Type = "ERROR"
             /\ results[1].Value = "unknown operator: -STRING"
             /\ Is(results[1], LastPrefixResult)
        ELSE IF FirstErrorArg(CallArgs) <= Len(CallArgs)
        THEN /\ Written = CalleeWrites(prog.idx[1])
                             \o ArgsWrite(CallArgs, FirstErrorArg(CallArgs) - 1)
             /\ results[1].Type = "ERROR"
             /\ results[1].Value = "unknown operator: -BOOLEAN"
             /\ Is(results[1], LastPrefixResult)
        ELSE StartsWith(Written, CalleeWrites(prog.idx[1])
                                     \o ArgsWrite(CallArgs, Len(CallArgs)))

\* puts("c")(puts(1), -true, puts(3)) was evaluated: c and 1 were written, 3 was
\* not, and the result is the Error of -true.
C25_ErrorBetweenTwoPuts ==
    /\ CallEvaluated
    /\ prog.idx[1] = 4
    /\ CallArgs = <<1, 2, 1>>
    /\ Written = <<"c", "1">>
    /\ results[1].Type = "ERROR"

\* o is no Boolean, null or undefined value other than the four singletons.
IsSingletonValue(o) ==
    /\ o.Type = "BOOLEAN" => Is(o, TrueObj) \/ Is(o, FalseObj)
    /\ o.Type = "NULL" => Is(o, NULL)
    /\ o.Type = "UNDEFINED" => Is(o, UNDEFINED)

\* C26: true, false, null and undefined are singletons throughout evaluation: every
\* Boolean produced is the TRUE or the FALSE instance, every null result the NULL
\* instance and every undefined result (of an empty program, an empty block or
\* function body, puts, ...) the UNDEFINED instance, so that two undefined results
\* are identical under ==.
C26_SingletonValues ==
    /\ \A j \in 1..Len(results) : IsSingletonValue(results[j])
    /\ \A i \in 1..Len(log) : IsSingletonValue(log[i].obj)
    /\ status = "returned" => IsSingletonValue(res)
    /\ \A i \in 1..Len(log) :
          (InfixAt(i) /\ log[i].name = "==" /\ InfixOperandsAre(i, "UNDEFINED")) =>
              Is(log[i + 1].obj, TrueObj)

\* C29: a / b for Integer operands with b = 0 yields an Error object, and no host
\* exception leaves Eval.
C29_DivisionByZeroYieldsError ==
    \A i \in 1..Len(log) :
        (/\ log[i].ev = "infix" /\ log[i].name = "/"
         /\ InfixOperandsAre(i, "INTEGER")
         /\ log[i].obj.Value.Right.Value = 0) =>
            /\ status # "raised"
            /\ InfixAt(i)
            /\ log[i + 1].obj.Type = "ERROR"

\* Step i is the start of an application of a Function: the Environment of the call
\* has been made and the parameters bound in it.
ApplyAt(i) == log[i].ev = "apply"

\* The step at which the application begun at step i returns, Len(log) when it has
\* not returned.
AppliedOf(i) ==
    IF \E j \in (i + 1)..Len(log) : log[j].ev = "applied" /\ log[j].env = log[i].env
    THEN CHOOSE j \in (i + 1)..Len(log) : log[j].ev = "applied" /\ log[j].env = log[i].env
    ELSE Len(log)

\* The "call" step of the application begun at step i: the parameters are bound
\* between the two.
CallOf(i) == i - Len(log[i].obj.Value.Parameters) - 1

\* The Environment of the application begun at step i is a new one, whose outer
\* Environment is the one the function was defined in and which binds exactly the
\* parameters, to the arguments.
FreshCallEnv(i) ==
    /\ log[CallOf(i)].ev = "call"
    /\ log[i].env = Len(log[CallOf(i)].envs) + 1
    /\ Len(log[i].envs) = log[i].env
    /\ log[i].envs[log[i].env].outer = log[i].obj.Value.Env
    /\ DOMAIN log[i].envs[log[i].env].store
           = {log[i].obj.Value.Parameters[k].Value :
                  k \in 1..Len(log[i].obj.Value.Parameters)}
    /\ \A k \in 1..Len(log[i].obj.Value.Parameters) :
           Is(log[i].envs[log[i].env].store[log[i].obj.Value.Parameters[k].Value],
              log[CallOf(i)].obj.Value.Args[k])

\* From the call of the application begun at step i to its return, the
\* Environments that existed at the call are as they were.
OtherEnvsUnchanged(i) ==
    \A k \in i..AppliedOf(i) :
        \A f \in 1..Len(log[CallOf(i)].envs) : log[k].envs[f] = log[CallOf(i)].envs[f]

\* C30: applying a Function changes neither the Environment it was defined in nor
\* the caller's: the parameters and the lets of the body are bound only in the
\* Environment of the call, also under names bound outside, and each call gets a
\* new Environment, which holds nothing of an earlier call.
C30_ApplicationBindsInItsOwnEnvironment ==
    \A i \in 1..Len(log) : ApplyAt(i) => FreshCallEnv(i) /\ OtherEnvsUnchanged(i)

\* let x = 1; let y = 2; function(x) { let y = 3; let x = 4; 7 }(v); 8; was
\* evaluated: the call bound x and y in its own Environment, and the program's
\* Environment binds x to 1 and y to 2 as before.
C30_ShadowedInCallOnly ==
    /\ prog.fam = "scope" /\ prog.idx[1] = 2
    /\ status = "returned"
    /\ Len(envs) = 2
    /\ envs[2].store["x"].Value = 4 /\ envs[2].store["y"].Value = 3
    /\ envs[1].store["x"].Value = 1 /\ envs[1].store["y"].Value = 2

\* C16: an identifier evaluates to the object bound to its name in the nearest
\* frame of the Environment chain that binds it; when no frame binds it, to the
\* builtin of that name; and when there is no such builtin, to an "identifier not
\* found" Error.  A binding of a builtin's name therefore shadows the builtin.
C16_IdentifierResolution ==
    \A i \in 1..Len(log) :
        log[i].ev = "ident" =>
            LET f == NearestFrame(log[i].envs, log[i].env, log[i].name)
            IN  IF f # 0 THEN Is(log[i].obj, log[i].envs[f].store[log[i].name])
                ELSE IF IsBuiltinName(log[i].name)
                THEN Is(log[i].obj, BuiltinNamed(log[i].name))
                ELSE /\ log[i].obj.Type = "ERROR"
                     /\ log[i].obj.Value = "identifier not found: " \o log[i].name

(***************************************************************************)
(* The lexer (lexer.py, and the module tstoken it imports).  The input is  *)
(* the sequence of its characters; positions count from 0 as in the        *)
(* source.                                                                 *)
(***************************************************************************)
\* str(b'\x00'), what readChar stores in ch at the end of the input: the text of
\* the bytes literal, seven characters long
EndMark == "b'\\x00'"

\* tstoken.Token; a Literal is the sequence of the characters of the str
Token(type, literal) == [Type |-> type, Literal |-> literal]

\* tstoken.keywords
keywords ==
    [function |-> "FUNCTION", let |-> "LET", true |-> "TRUE", false |-> "FALSE",
     if |-> "IF", else |-> "ELSE", return |-> "RETURN"]

\* The string made of a sequence of characters.
RECURSIVE Join(_)
Join(cs) == IF cs = <<>> THEN "" ELSE Head(cs) \o Join(Tail(cs))

\* tstoken.lookupIdent
lookupIdent(ident) ==
    IF Join(ident) \in DOMAIN keywords THEN keywords[Join(ident)] ELSE "IDENT"

\* self.input[a:b]
Slice(input, a, b) == SubSeq(input, a + 1, IF b > Len(input) THEN Len(input) ELSE b)

\* Lexer.readChar
readChar(l) ==
    [l EXCEPT !.ch = IF l.readPosition >= Len(l.input) THEN EndMark
                     ELSE l.input[l.readPosition + 1],
              !.position = l.readPosition,
              !.readPosition = l.readPosition + 1]

\* Lexer.__init__
Lexer(input) == readChar([input |-> input, position |-> 0, readPosition |-> 0, ch |-> ""])

\* Lexer.skipWhitespace; `self.ch in ' \t\n\r'` holds of the four characters and
\* not of the end mark
RECURSIVE skipWhitespace(_)
skipWhitespace(l) ==
    IF l.ch \in {" ", "\t", "\n", "\r"} THEN skipWhitespace(readChar(l)) ELSE l

\* Lexer.peekChar
peekChar(l) ==
    IF l.readPosition >= Len(l.input) THEN EndMark ELSE l.input[l.readPosition + 1]

LowerCase == {"a", "b", "c", "d", "e", "f", "g", "h", "i", "j", "k", "l", "m",
              "n", "o", "p", "q", "r", "s", "t", "u", "v", "w", "x", "y", "z"}
UpperCase == {"A", "B", "C", "D", "E", "F", "G", "H", "I", "J", "K", "L", "M",
              "N", "O", "P", "Q", "R", "S", "T", "U", "V", "W", "X", "Y", "Z"}
Digits == {"0", "1", "2", "3", "4", "5", "6", "7", "8", "9"}

\* ord(ch) raises TypeError unless ch is one character long
OrdRaises(ch) == Len(ch) # 1

\* Lexer.isLetter, for a ch that ord accepts
isLetter(ch) == ch \in LowerCase \/ ch \in UpperCase \/ ch = "_"

\* Lexer.isDigit, for a ch that ord accepts
isDigit(ch) == ch \in Digits

\* What a method of the Lexer returns (val) and the Lexer as the call leaves it;
\* exc names the exception when the method raises instead.
LexOut(val, l) == [val |-> val, l |-> l, exc |-> ""]
LexRaise(exc, l) == [val |-> Raised(exc), l |-> l, exc |-> exc]

\* The loops of readIdentifier and readNumber: they stop at the first ch that is
\* no letter (no digit), or at the ch the test raises on.
RECURSIVE readLetters(_), readDigits(_), readToQuote(_)
readLetters(l) ==
    IF ~OrdRaises(l.ch) /\ isLetter(l.ch) THEN readLetters(readChar(l)) ELSE l
readDigits(l) ==
    IF ~OrdRaises(l.ch) /\ isDigit(l.ch) THEN readDigits(readChar(l)) ELSE l

\* the text read, or the TypeError of the test that ended the loop at e
readResult(l, e) ==
    IF OrdRaises(e.ch) THEN LexRaise("TypeError", e)
    ELSE LexOut(Slice(l.input, l.position, e.position), e)

\* Lexer.readIdentifier
readIdentifier(l) == readResult(l, readLetters(l))

\* Lexer.readNumber
readNumber(l) == readResult(l, readDigits(l))

\* the loop of readString
readToQuote(l) ==
    IF readChar(l).ch = "\"" \/ readChar(l).ch = EndMark THEN readChar(l)
    ELSE readToQuote(readChar(l))

\* the text between the opening quote at l and the position the loop ended at
stringResult(l, e) == LexOut(Slice(l.input, l.position + 1, e.position), e)

\* Lexer.readString
readString(l) == stringResult(l, readToQuote(l))

\* The token types of the characters NextToken turns into a token of their own.
SingleCharTokens == {"+", "-", "/", "*", "<", ">", ";", ":", ",", "{", "}", "(", ")",
                     "[", "]"}

\* newToken(type, self.ch) followed by the readChar that ends NextToken
newToken(type, l) == LexOut(Token(type, <<l.ch>>), readChar(l))

\* NextToken's branches for `=` and `!`, which with a following `=` make EQ and
\* NOT_EQ
twoCharToken(double, single, l) ==
    IF peekChar(l) = "="
    THEN LexOut(Token(double, <<l.ch, readChar(l).ch>>), readChar(readChar(l)))
    ELSE newToken(single, l)

\* NextToken's returns for an identifier and for a number, r being what
\* readIdentifier or readNumber returned
wordToken(r) ==
    IF r.exc # "" THEN r ELSE LexOut(Token(lookupIdent(r.val), r.val), r.l)
numberToken(r) ==
    IF r.exc # "" THEN r ELSE LexOut(Token("INT", r.val), r.l)

\* NextToken's return for a string, r being what readString returned
stringToken(r) == LexOut(Token("STRING", r.val), readChar(r.l))

\* NextToken after skipWhitespace
tokenAt(l) ==
    IF l.ch = "=" THEN twoCharToken("==", "=", l)
    ELSE IF l.ch = "!" THEN twoCharToken("!=", "!", l)
    ELSE IF l.ch \in SingleCharTokens THEN newToken(l.ch, l)
    ELSE IF l.ch = "\"" THEN stringToken(readString(l))
    ELSE IF l.ch = EndMark THEN LexOut(Token("EOF", <<>>), readChar(l))
    ELSE IF isLetter(l.ch) THEN wordToken(readIdentifier(l))
    ELSE IF isDigit(l.ch) THEN numberToken(readNumber(l))
    ELSE newToken("ILLEGAL", l)

\* Lexer.NextToken: [val, l], val being the Token returned or the exception raised
NextToken(l) == tokenAt(skipWhitespace(l))

(***************************************************************************)
(* The lexer specification: a Lexer is made for a text and NextToken is    *)
(* called on it again and again.                                           *)
(***************************************************************************)
MaxText == 4          \* characters of a text made from the alphabet
MaxEOF == 3           \* NextToken calls followed up to the MaxEOF-th EOF token

\* The characters the enumerated texts are made of.
LexAlphabet == {"a", "1", " ", "=", "!", "\"", ";", "@"}

\* Texts given in full:
\*   1: let five = 5;
\*   2: !-/*5; 5 < 10 > 5;
\*   3: if (5 < 10) { return true; } else { return false; }
\*   4: 10 == 10; 10 != 9;
\*   5: "foobar" "foo bar" [1, 2]; {"a": 1}
\*   6: let add = function(x, y) { x + y; };\n\tadd(_a1, Z);
\*   7: "abc
\*   8: let x = 5
\*   9: a = 1 +
SampleTexts ==
    << <<"l", "e", "t", " ", "f", "i", "v", "e", " ", "=", " ", "5", ";">>,
       <<"!", "-", "/", "*", "5", ";", " ", "5", " ", "<", " ", "1", "0", " ", ">", " ",
                 "5", ";">>,
       <<"i", "f", " ", "(", "5", " ", "<", " ", "1", "0", ")", " ", "{", " ", "r", "e",
                 "t", "u", "r", "n", " ", "t", "r", "u", "e", ";", " ", "}", " ", "e",
                 "l", "s", "e", " ", "{", " ", "r", "e", "t", "u", "r", "n", " ", "f",
                 "a", "l", "s", "e", ";", " ", "}">>,
       <<"1", "0", " ", "=", "=", " ", "1", "0", ";", " ", "1", "0", " ", "!", "=", " ",
                 "9", ";">>,
       <<"\"", "f", "o", "o", "b", "a", "r", "\"", " ", "\"", "f", "o", "o", " ", "b",
                 "a", "r", "\"", " ", "[", "1", ",", " ", "2", "]", ";", " ", "{", "\"",
                 "a", "\"", ":", " ", "1", "}">>,
       <<"l", "e", "t", " ", "a", "d", "d", " ", "=", " ", "f", "u", "n", "c", "t", "i",
                 "o", "n", "(", "x", ",", " ", "y", ")", " ", "{", " ", "x", " ", "+",
                 " ", "y", ";", " ", "}", ";", "\n", "\t", "a", "d", "d", "(", "_", "a",
                 "1", ",", " ", "Z", ")", ";">>,
       <<"\"", "a", "b", "c">>,
       <<"l", "e", "t", " ", "x", " ", "=", " ", "5">>,
       <<"a", " ", "=", " ", "1", " ", "+">> >>
LexTexts ==
    UNION {[1..n -> LexAlphabet] : n \in 0..MaxText}
    \cup {SampleTexts[i] : i \in 1..Len(SampleTexts)}

\* The EOF tokens among the tokens returned so far.
EOFCount(toks) == Cardinality({i \in 1..Len(toks) : toks[i].tok.Type = "EOF"})

InitLex ==
    /\ lx \in {[status |-> "new", input |-> t] : t \in LexTexts}
    /\ ps = NoParser
    /\ envs = <<>>
    /\ nobj = 0
    /\ op = NoOp
    /\ got = NoGot
    /\ nsets = 0
    /\ prog = 0
    /\ pc = 0
    /\ res = None
    /\ status = "idle"
    /\ results = <<>>
    /\ log = <<>>
    /\ lists = <<>>

\* l = Lexer(input)
NewLexer ==
    /\ lx.status = "new"
    /\ lx' = [status |-> "ready", input |-> lx.input, l |-> Lexer(lx.input), toks |-> <<>>]
    /\ UNCHANGED <<envs, nobj, op, got, nsets, prog, pc, res, status, results, log, lists,
                   ps>>

\* l.NextToken(); toks records each token returned with the position it starts at
LexNextToken ==
    /\ lx.status = "ready"
    /\ EOFCount(lx.toks) < MaxEOF
    /\ \E r \in {NextToken(lx.l)} :
          lx' = IF r.exc # ""
                THEN [lx EXCEPT !.status = "raised", !.l = r.l]
                ELSE [lx EXCEPT !.l = r.l,
                                !.toks = Append(@, [tok |-> r.val,
                                                    at |-> skipWhitespace(lx.l).position])]
    /\ UNCHANGED <<envs, nobj, op, got, nsets, prog, pc, res, status, results, log, lists,
                   ps>>

NextLex == NewLexer \/ LexNextToken

SpecLex == InitLex /\ [][NextLex]_vars

(***************************************************************************)
(* Properties of the lexer, stated of SpecLex.                             *)
(***************************************************************************)
\* C20: repeated NextToken calls return the tokens of the text in source order and
\* then an EOF token; every call after the first EOF returns EOF again, and no
\* call raises.
C20_TokensThenEOFForEver ==
    /\ lx.status # "raised"
    /\ lx.status = "ready" =>
          \A i \in 1..Len(lx.toks) :
              \A j \in (i + 1)..Len(lx.toks) :
                  IF lx.toks[i].tok.Type = "EOF" THEN lx.toks[j].tok.Type = "EOF"
                  ELSE lx.toks[i].at < lx.toks[j].at

\* The characters an identifier is made of, and the position (counted from 0) of
\* the first character at or after p that is not in S.
Letters == LowerCase \cup UpperCase \cup {"_"}
RECURSIVE RunEnd(_, _, _)
RunEnd(input, p, S) ==
    IF p < Len(input) /\ input[p + 1] \in S THEN RunEnd(input, p + 1, S) ELSE p

\* The token the text has at position p when a letter or a digit stands there: the
\* maximal run, typed by the keyword table or as INT.
RunToken(input, p) ==
    IF input[p + 1] \in Letters
    THEN LET run == SubSeq(input, p + 1, RunEnd(input, p, Letters))
         IN  Token(IF Join(run) \in {"function", "let", "true", "false", "if", "else",
                                     "return"}
                   THEN keywords[Join(run)] ELSE "IDENT", run)
    ELSE Token("INT", SubSeq(input, p + 1, RunEnd(input, p, Digits)))

StartsRun(input, p) == p < Len(input) /\ input[p + 1] \in Letters \cup Digits

\* C21: the token returned where a letter or a digit stands is the maximal run of
\* letters and underscores (typed by the keyword table, IDENT otherwise) or of
\* digits (typed INT), also when the run reaches the end of the input, where the
\* call returns the token as well; and the call leaves the cursor on the first
\* character after the run.
C21_MaximalRunTokens ==
    /\ lx.status # "raised"
    /\ lx.status = "ready" =>
          /\ \A i \in 1..Len(lx.toks) :
                StartsRun(lx.input, lx.toks[i].at) =>
                    lx.toks[i].tok = RunToken(lx.input, lx.toks[i].at)
          /\ lx.toks # <<>> /\ StartsRun(lx.input, lx.toks[Len(lx.toks)].at) =>
                lx.l.position = lx.toks[Len(lx.toks)].at
                                + Len(lx.toks[Len(lx.toks)].tok.Literal)

(***************************************************************************)
(* The parser (parser.py).  A Parser is the record of its fields l,        *)
(* errors, curToken and peekToken.  Each token it takes from the Lexer is  *)
(* numbered (No), which stands for the identity of the Token object: the   *)
(* Label of a node is the No of the node's Token.  exc names the host      *)
(* exception that left a NextToken call, if one did: from then on nothing  *)
(* of the Parser runs any more, which the operators below render by        *)
(* leaving the record as it is, its tokens set to EOF so that every loop   *)
(* and recursion ends.                                                     *)
(***************************************************************************)
\* parser.Precedence
LOWEST == 0
EQUALS == 1
LESSGREATER == 2
SUM == 3
PRODUCT == 4
PREFIX == 5
CALL == 6
INDEX == 7

\* parser.precedences
precedences ==
    [t \in {"==", "!=", "<", ">", "+", "-", "/", "*", "(", "["} |->
        IF t \in {"==", "!="} THEN EQUALS
        ELSE IF t \in {"<", ">"} THEN LESSGREATER
        ELSE IF t \in {"+", "-"} THEN SUM
        ELSE IF t \in {"/", "*"} THEN PRODUCT
        ELSE IF t = "(" THEN CALL
        ELSE INDEX]

\* self.prefixParseFns and self.infixParseFns, set up by Parser.__init__
prefixParseFns ==
    [t \in {"IDENT", "INT", "STRING", "!", "-", "TRUE", "FALSE", "(", "IF", "FUNCTION",
            "[", "{"} |->
        IF t = "IDENT" THEN "parseIdentifier"
        ELSE IF t = "INT" THEN "parseIntegerLiteral"
        ELSE IF t = "STRING" THEN "parseStringLiteral"
        ELSE IF t \in {"!", "-"} THEN "parsePrefixExpression"
        ELSE IF t \in {"TRUE", "FALSE"} THEN "parseBoolean"
        ELSE IF t = "(" THEN "parseGroupedExpression"
        ELSE IF t = "IF" THEN "parseIfExpression"
        ELSE IF t = "FUNCTION" THEN "parseFunctionLiteral"
        ELSE IF t = "[" THEN "parseArrayLiteral"
        ELSE "parseHashLiteral"]
infixParseFns ==
    [t \in {"+", "-", "/", "*", "==", "!=", "<", ">", "(", "["} |->
        IF t = "(" THEN "parseCallExpression"
        ELSE IF t = "[" THEN "parseIndexExpression"
        ELSE "parseInfixExpression"]

\* The curToken and peekToken of a new Parser (None), and those of a Parser that a
\* host exception has left.
NoToken == [Type |-> "None", Literal |-> <<>>, No |-> 0]
EndToken == [Type |-> "EOF", Literal |-> <<>>, No |-> 0]

\* Parser.nextToken, t being what self.l.NextToken() gave
nextTokenWith(P, t) ==
    IF t.exc # ""
    THEN [P EXCEPT !.exc = t.exc, !.l = t.l, !.curToken = EndToken, !.peekToken = EndToken]
    ELSE [P EXCEPT !.curToken = P.peekToken,
                   !.peekToken = [Type |-> t.val.Type, Literal |-> t.val.Literal,
                                  No |-> P.ntok + 1],
                   !.ntok = P.ntok + 1,
                   !.l = t.l]

\* Parser.nextToken
nextToken(P) == IF P.exc # "" THEN P ELSE nextTokenWith(P, NextToken(P.l))

\* Parser.__init__
Parser(l) ==
    nextToken(nextToken([l |-> l, errors |-> <<>>, curToken |-> NoToken,
                         peekToken |-> NoToken, exc |-> "", ntok |-> 0]))

\* Parser.curTokenIs, Parser.peekTokenIs
curTokenIs(P, t) == P.curToken.Type = t
peekTokenIs(P, t) == P.peekToken.Type = t

\* self.errors.append(msg)
appendError(P, msg) == IF P.exc # "" THEN P ELSE [P EXCEPT !.errors = Append(@, msg)]

\* Parser.Errors
Errors(P) == P.errors

\* Parser.peekError
peekError(P, t) ==
    appendError(P, "expected next tstoken to be " \o t \o ", got " \o P.peekToken.Type
                   \o " instead")

\* Parser.noPrefixParseFnError
noPrefixParseFnError(P, t) == appendError(P, "no prefix parse function for " \o t \o " found")

\* Parser.expectPeek: [ok, p], ok being what it returns and p the Parser after it
expectPeek(P, t) ==
    IF peekTokenIs(P, t) THEN [ok |-> TRUE, p |-> nextToken(P)]
    ELSE [ok |-> FALSE, p |-> peekError(P, t)]

\* Parser.peekPrecedence, Parser.curPrecedence
peekPrecedence(P) ==
    IF P.peekToken.Type \in DOMAIN precedences THEN precedences[P.peekToken.Type]
    ELSE LOWEST
curPrecedence(P) ==
    IF P.curToken.Type \in DOMAIN precedences THEN precedences[P.curToken.Type]
    ELSE LOWEST

\* What a parse method returns (node, NoNode for None) and the Parser after it.
POut(node, P) == [node |-> node, p |-> P]

\* An ast.Expression() with nothing in it, which the constructors of
\* InfixExpression, CallExpression and IndexExpression put in the place of a None.
BareExpression == [kind |-> "Expression"]
OrBare(node) == IF node = NoNode THEN BareExpression ELSE node

\* int(literal) for a literal of decimal digits
DigitValue(ch) ==
    IF ch = "0" THEN 0 ELSE IF ch = "1" THEN 1 ELSE IF ch = "2" THEN 2
    ELSE IF ch = "3" THEN 3 ELSE IF ch = "4" THEN 4 ELSE IF ch = "5" THEN 5
    ELSE IF ch = "6" THEN 6 ELSE IF ch = "7" THEN 7 ELSE IF ch = "8" THEN 8 ELSE 9
RECURSIVE int(_)
int(literal) ==
    IF literal = <<>> THEN 0
    ELSE 10 * int(SubSeq(literal, 1, Len(literal) - 1)) + DigitValue(literal[Len(literal)])
\* int(literal) raises ValueError
IntRaises(literal) == literal = <<>> \/ \E i \in 1..Len(literal) : literal[i] \notin Digits

\* Parser.parseIdentifier
parseIdentifier(P) == POut(Identifier(Join(P.curToken.Literal)), P)

\* Parser.parseIntegerLiteral
parseIntegerLiteral(P) ==
    IF IntRaises(P.curToken.Literal)
    THEN POut(NoNode, appendError(P, "could not parse " \o Join(P.curToken.Literal)
                                     \o " as integer"))
    ELSE POut(IntegerLiteral(int(P.curToken.Literal)), P)

\* Parser.parseStringLiteral
parseStringLiteral(P) == POut(StringLiteral(Join(P.curToken.Literal)), P)

\* Parser.parseBoolean
parseBoolean(P) == POut(Boolean(curTokenIs(P, "TRUE")), P)

\* The ends of the parse methods, given what the calls they made returned.
\* parsePrefixExpression: expr.Right = r; return expr
prefixEnd(operator, r) == POut(PrefixExpression(operator, r.node), r.p)
\* parseInfixExpression: expr.Right = r; return expr
infixEnd(left, operator, r) == POut(InfixExpression(OrBare(left), operator, r.node), r.p)
\* return node if self.expectPeek(...) else None
nodeIfExpected(node, e) == POut(IF e.ok THEN node ELSE NoNode, e.p)
\* A None where a list is expected, and `return l if self.expectPeek(...) else None`
NoList == <<[kind |-> "NoList"]>>
listIfExpected(l, e) == POut(IF e.ok THEN l ELSE NoList, e.p)
\* the optional semicolon that ends a statement
skipSemicolon(P) == IF peekTokenIs(P, ";") THEN nextToken(P) ELSE P
\* parseLetStatement: stmt.Value = r; the semicolon; return stmt
letEnd(label, name, r) == POut(LetStatement(label, name, r.node), skipSemicolon(r.p))
\* parseReturnStatement
returnEnd(label, r) == POut(ReturnStatement(label, r.node), skipSemicolon(r.p))
\* parseExpressionStatement
expressionStatementEnd(label, r) ==
    POut(ExpressionStatement(label, r.node), skipSemicolon(r.p))
\* parseCallExpression: exp.Arguments = r; return exp
callEnd(func, r) == POut(CallExpression(OrBare(func), r.node), r.p)
\* parseArrayLiteral: arr.Elements = r; return arr
arrayEnd(r) == POut(ArrayLiteral(r.node), r.p)
\* parseIfExpression: expr.Alternative = r; return expr
alternativeEnd(label, condition, consequence, r) ==
    POut(IfExpression(label, condition, consequence, r.node), r.p)
\* parseFunctionLiteral: lit.Body = r; return lit
functionEnd(params, r) == POut(FunctionLiteral(params, r.node), r.p)
\* h.Pairs[key] = v: the nodes are hashed by identity, so that only a None key can
\* be in the dict already
setPair(pairs, key, v) ==
    IF key = NoNode /\ \E i \in 1..Len(pairs) : pairs[i][1] = NoNode
    THEN [i \in 1..Len(pairs) |-> IF pairs[i][1] = NoNode THEN <<NoNode, v>> ELSE pairs[i]]
    ELSE Append(pairs, <<key, v>>)
\* block.Statements.append(stmt) unless stmt is None
appendStatement(stmts, stmt) == IF stmt = NoNode THEN stmts ELSE Append(stmts, stmt)

RECURSIVE parseStatement(_), parseLetStatement(_), letName(_, _), letAssign(_, _, _),
          parseReturnStatement(_), parseExpressionStatement(_), parseExpression(_, _),
          prefix(_), infix(_, _), infixLoop(_, _), parsePrefixExpression(_),
          parseInfixExpression(_, _), parseGroupedExpression(_), groupedClose(_),
          parseIfExpression(_), ifParen(_, _), ifCondition(_, _), ifBrace(_, _, _),
          ifConsequence(_, _, _), ifElse(_, _, _), ifAlternative(_, _, _, _),
          parseBlockStatement(_), blockLoop(_, _, _), blockNext(_, _, _),
          parseFunctionLiteral(_), functionParams(_), functionBrace(_), functionBody(_, _),
          parseFunctionParameters(_), parametersLoop(_, _), parseCallExpression(_, _),
          parseExpressionList(_, _), listLoop(_, _, _), listNext(_, _, _),
          parseArrayLiteral(_), parseIndexExpression(_, _), indexClose(_, _),
          parseHashLiteral(_), hashLoop(_, _), hashKey(_, _), hashColon(_, _, _),
          hashValue(_, _, _), hashComma(_, _)

\* Parser.parseStatement
parseStatement(P) ==
    IF curTokenIs(P, "LET") THEN parseLetStatement(P)
    ELSE IF curTokenIs(P, "RETURN") THEN parseReturnStatement(P)
    ELSE parseExpressionStatement(P)

\* Parser.parseLetStatement; e is what expectPeek gave
parseLetStatement(P) == letName(P.curToken.No, expectPeek(P, "IDENT"))
letName(label, e) ==
    IF ~e.ok THEN POut(NoNode, e.p)
    ELSE letAssign(label, Join(e.p.curToken.Literal), expectPeek(e.p, "="))
letAssign(label, name, e) ==
    IF ~e.ok THEN POut(NoNode, e.p)
    ELSE letEnd(label, name, parseExpression(nextToken(e.p), LOWEST))

\* Parser.parseReturnStatement
parseReturnStatement(P) ==
    returnEnd(P.curToken.No, parseExpression(nextToken(P), LOWEST))

\* Parser.parseExpressionStatement
parseExpressionStatement(P) ==
    expressionStatementEnd(P.curToken.No, parseExpression(P, LOWEST))

\* Parser.parseExpression
parseExpression(P, prec) ==
    IF P.curToken.Type \notin DOMAIN prefixParseFns
    THEN POut(NoNode, noPrefixParseFnError(P, P.curToken.Type))
    ELSE infixLoop(prefix(P), prec)

\* prefix(), for the method the table has for the current token
prefix(P) ==
    LET fn == prefixParseFns[P.curToken.Type]
    IN  IF fn = "parseIdentifier" THEN parseIdentifier(P)
        ELSE IF fn = "parseIntegerLiteral" THEN parseIntegerLiteral(P)
        ELSE IF fn = "parseStringLiteral" THEN parseStringLiteral(P)
        ELSE IF fn = "parsePrefixExpression" THEN parsePrefixExpression(P)
        ELSE IF fn = "parseBoolean" THEN parseBoolean(P)
        ELSE IF fn = "parseGroupedExpression" THEN parseGroupedExpression(P)
        ELSE IF fn = "parseIfExpression" THEN parseIfExpression(P)
        ELSE IF fn = "parseFunctionLiteral" THEN parseFunctionLiteral(P)
        ELSE IF fn = "parseArrayLiteral" THEN parseArrayLiteral(P)
        ELSE parseHashLiteral(P)

\* infix(leftExp), for the method the table has for the current token
infix(P, left) ==
    LET fn == infixParseFns[P.curToken.Type]
    IN  IF P.exc # "" THEN POut(NoNode, P)
        ELSE IF fn = "parseCallExpression" THEN parseCallExpression(P, left)
        ELSE IF fn = "parseIndexExpression" THEN parseIndexExpression(P, left)
        ELSE parseInfixExpression(P, left)

\* parseExpression's loop, r being leftExp and the Parser after it was parsed
infixLoop(r, prec) ==
    IF ~peekTokenIs(r.p, ";") /\ prec < peekPrecedence(r.p)
    THEN IF r.p.peekToken.Type \notin DOMAIN infixParseFns THEN r
         ELSE infixLoop(infix(nextToken(r.p), r.node), prec)
    ELSE r

\* Parser.parsePrefixExpression
parsePrefixExpression(P) ==
    prefixEnd(Join(P.curToken.Literal), parseExpression(nextToken(P), PREFIX))

\* Parser.parseInfixExpression
parseInfixExpression(P, left) ==
    infixEnd(left, Join(P.curToken.Literal),
             parseExpression(nextToken(P), curPrecedence(P)))

\* Parser.parseGroupedExpression
parseGroupedExpression(P) == groupedClose(parseExpression(nextToken(P), LOWEST))
groupedClose(r) == nodeIfExpected(r.node, expectPeek(r.p, ")"))

\* Parser.parseIfExpression
parseIfExpression(P) == ifParen(P.curToken.No, expectPeek(P, "("))
ifParen(label, e) ==
    IF ~e.ok THEN POut(NoNode, e.p)
    ELSE ifCondition(label, parseExpression(nextToken(e.p), LOWEST))
ifCondition(label, c) == ifBrace(label, c.node, expectPeek(c.p, ")"))
ifBrace(label, condition, e) ==
    IF ~e.ok THEN POut(NoNode, e.p)
    ELSE ifConsequence(label, condition, expectPeek(e.p, "{"))
ifConsequence(label, condition, e) ==
    IF ~e.ok THEN POut(NoNode, e.p)
    ELSE ifElse(label, condition, parseBlockStatement(e.p))
ifElse(label, condition, b) ==
    IF peekTokenIs(b.p, "ELSE")
    THEN ifAlternative(label, condition, b.node, expectPeek(nextToken(b.p), "{"))
    ELSE POut(IfExpression(label, condition, b.node, NoNode), b.p)
ifAlternative(label, condition, consequence, e) ==
    IF ~e.ok THEN POut(NoNode, e.p)
    ELSE alternativeEnd(label, condition, consequence, parseBlockStatement(e.p))

\* Parser.parseBlockStatement
parseBlockStatement(P) == blockLoop(P.curToken.No, <<>>, nextToken(P))
blockLoop(label, stmts, P) ==
    IF ~curTokenIs(P, "}") /\ ~curTokenIs(P, "EOF")
    THEN blockNext(label, stmts, parseStatement(P))
    ELSE POut(BlockStatement(label, stmts), P)
blockNext(label, stmts, r) ==
    blockLoop(label, appendStatement(stmts, r.node), nextToken(r.p))

\* Parser.parseFunctionLiteral
parseFunctionLiteral(P) == functionParams(expectPeek(P, "("))
functionParams(e) ==
    IF ~e.ok THEN POut(NoNode, e.p) ELSE functionBrace(parseFunctionParameters(e.p))
functionBrace(r) == functionBody(r.node, expectPeek(r.p, "{"))
functionBody(params, e) ==
    IF ~e.ok THEN POut(NoNode, e.p) ELSE functionEnd(params, parseBlockStatement(e.p))

\* Parser.parseFunctionParameters
parseFunctionParameters(P) ==
    IF peekTokenIs(P, ")") THEN POut(<<>>, nextToken(P))
    ELSE parametersLoop(<<>>, nextToken(P))
\* idents.append(ast.Identifier(...)) for the current token, and the loop
parametersLoop(idents, P) ==
    IF peekTokenIs(P, ",")
    THEN parametersLoop(Append(idents, Identifier(Join(P.curToken.Literal))),
                        nextToken(nextToken(P)))
    ELSE listIfExpected(Append(idents, Identifier(Join(P.curToken.Literal))),
                        expectPeek(P, ")"))

\* Parser.parseCallExpression
parseCallExpression(P, func) == callEnd(func, parseExpressionList(P, ")"))

\* Parser.parseExpressionList
parseExpressionList(P, end) ==
    IF peekTokenIs(P, end) THEN POut(<<>>, nextToken(P))
    ELSE listNext(<<>>, parseExpression(nextToken(P), LOWEST), end)
listNext(l, r, end) == listLoop(Append(l, r.node), r.p, end)
listLoop(l, P, end) ==
    IF peekTokenIs(P, ",")
    THEN listNext(l, parseExpression(nextToken(nextToken(P)), LOWEST), end)
    ELSE listIfExpected(l, expectPeek(P, end))

\* Parser.parseArrayLiteral
parseArrayLiteral(P) == arrayEnd(parseExpressionList(P, "]"))

\* Parser.parseIndexExpression
parseIndexExpression(P, left) == indexClose(left, parseExpression(nextToken(P), LOWEST))
indexClose(left, r) ==
    nodeIfExpected(IndexExpression(OrBare(left), r.node), expectPeek(r.p, "]"))

\* Parser.parseHashLiteral
parseHashLiteral(P) == hashLoop(<<>>, P)
hashLoop(pairs, P) ==
    IF ~peekTokenIs(P, "}") THEN hashKey(pairs, parseExpression(nextToken(P), LOWEST))
    ELSE nodeIfExpected(HashLiteral(pairs), expectPeek(P, "}"))
hashKey(pairs, k) == hashColon(pairs, k.node, expectPeek(k.p, ":"))
hashColon(pairs, key, e) ==
    IF ~e.ok THEN POut(NoNode, e.p)
    ELSE hashValue(pairs, key, parseExpression(nextToken(e.p), LOWEST))
hashValue(pairs, key, v) ==
    IF ~peekTokenIs(v.p, "}")
    THEN hashComma(setPair(pairs, key, v.node), expectPeek(v.p, ","))
    ELSE hashLoop(setPair(pairs, key, v.node), v.p)
hashComma(pairs, e) == IF ~e.ok THEN POut(NoNode, e.p) ELSE hashLoop(pairs, e.p)

\* One iteration of ParseProgram's loop: [stmts, p], the Program's Statements and
\* the Parser after it
programNext(stmts, r) == [stmts |-> appendStatement(stmts, r.node), p |-> nextToken(r.p)]
parseProgramStep(stmts, P) == programNext(stmts, parseStatement(P))

\* Parser.ParseProgram
RECURSIVE programLoop(_)
programLoop(s) ==
    IF ~curTokenIs(s.p, "EOF") THEN programLoop(parseProgramStep(s.stmts, s.p))
    ELSE POut(Program(s.stmts), s.p)
ParseProgram(P) == programLoop([stmts |-> <<>>, p |-> P])

(***************************************************************************)
(* The texts given to the parser.  A text is made of words separated by    *)
(* one space.                                                              *)
(***************************************************************************)
MaxWords == 3         \* words of a text made from the vocabulary
MaxOps == 2           \* infix operators of an enumerated expression

\* The characters of the words that have more than one.
WordChars ==
    ("let" :> <<"l", "e", "t">>) @@ ("return" :> <<"r", "e", "t", "u", "r", "n">>)
    @@ ("if" :> <<"i", "f">>) @@ ("function" :> <<"f", "u", "n", "c", "t", "i", "o", "n">>)
    @@ ("true" :> <<"t", "r", "u", "e">>) @@ ("false" :> <<"f", "a", "l", "s", "e">>)
    @@ ("==" :> <<"=", "=">>) @@ ("!=" :> <<"!", "=">>)
    @@ ("\"a\"" :> <<"\"", "a", "\"">>)
    @@ ("else" :> <<"e", "l", "s", "e">>) @@ ("None" :> <<"N", "o", "n", "e">>)
Word(w) == IF w \in DOMAIN WordChars THEN WordChars[w] ELSE <<w>>

RECURSIVE TextOfWords(_)
TextOfWords(ws) ==
    IF ws = <<>> THEN <<>>
    ELSE IF Len(ws) = 1 THEN Word(ws[1])
    ELSE Word(ws[1]) \o <<" ">> \o TextOfWords(Tail(ws))

\* The words of the texts of the family "tokens": every sequence of up to
\* MaxWords of them is a text.
Vocabulary == <<"let", "return", "x", "5", "=", ";", "(", ")", "+", "*", "-", "!">>

\* The family "expr": operands a, b, c, ... joined by infix operators, one operand
\* or one pair of operands written in another form, with or without the `;`.
InfixOperators == <<"==", "!=", "<", ">", "+", "-", "*", "/">>
OperandNames == <<"a", "b", "c", "d", "e", "f">>
ExprForms == {"plain", "minus", "bang", "index", "call", "groupFirst", "groupLast"}

\* the words of operand k of an expression of n operators in the form
OperandWords(form, k, n) ==
    IF form = "minus" /\ k = 1 THEN <<"-", OperandNames[k]>>
    ELSE IF form = "bang" /\ k = 1 THEN <<"!", OperandNames[k]>>
    ELSE IF form = "index" /\ k = n + 1 THEN <<OperandNames[k], "[", "2", "]">>
    ELSE IF form = "call" /\ k = n + 1 THEN <<OperandNames[k], "(", "y", ")">>
    ELSE IF form = "groupFirst" /\ k = 1 THEN <<"(", OperandNames[k]>>
    ELSE IF form = "groupFirst" /\ k = 2 THEN <<OperandNames[k], ")">>
    ELSE IF form = "groupLast" /\ k = n THEN <<"(", OperandNames[k]>>
    ELSE IF form = "groupLast" /\ k = n + 1 THEN <<OperandNames[k], ")">>
    ELSE <<OperandNames[k]>>

RECURSIVE ChainWords(_, _, _, _)
ChainWords(form, k, n, ops) ==
    IF k = n + 1 THEN OperandWords(form, k, n)
    ELSE OperandWords(form, k, n) \o <<ops[k]>> \o ChainWords(form, k + 1, n, ops)

ExprWords(form, ops, term) == ChainWords(form, 1, Len(ops), ops) \o term

\* The family "arith": the operands 1, 2, 3, ... (or the same from the highest
\* down), joined by +, - and *.
ArithOperators == <<"+", "-", "*">>
ArithForms == {"plain", "minus", "groupFirst", "groupLast", "wrapped"}
Numerals == <<"1", "2", "3", "4", "5", "6">>
ArithOperand(k, n, down) == IF down THEN n + 2 - k ELSE k

ArithOperandWords(form, k, n, down) ==
    LET w == Numerals[ArithOperand(k, n, down)]
    IN  IF form = "minus" /\ k = 1 THEN <<"-", w>>
        ELSE IF form = "groupFirst" /\ k = 1 THEN <<"(", w>>
        ELSE IF form = "groupFirst" /\ k = 2 THEN <<w, ")">>
        ELSE IF form = "groupLast" /\ k = n THEN <<"(", w>>
        ELSE IF form = "groupLast" /\ k = n + 1 THEN <<w, ")">>
        ELSE <<w>>

RECURSIVE ArithChainWords(_, _, _, _, _)
ArithChainWords(form, k, n, ops, down) ==
    IF k = n + 1 THEN ArithOperandWords(form, k, n, down)
    ELSE ArithOperandWords(form, k, n, down) \o <<ops[k]>>
         \o ArithChainWords(form, k + 1, n, ops, down)

ArithWords(form, ops, down, term) ==
    IF form = "wrapped"
    THEN <<"(">> \o ArithChainWords(form, 1, Len(ops), ops, down) \o <<")">> \o term
    ELSE ArithChainWords(form, 1, Len(ops), ops, down) \o term

\* The family "malformed": a statement that lacks a token or starts with a token
\* that begins no expression, followed by a well-formed statement.
BadStatements ==
    << <<"let", "x", "5", ";">>,
       <<"let", "=", "5", ";">>,
       <<"let", "x", "=", ";">>,
       <<")", ";">>,
       <<"(", "5", ";">>,
       <<"+", "5", ";">>,
       <<"5", "+", ";">>,
       <<"if", "5", "{", "x", "}", ";">>,
       <<"[", "5", ";">>,
       <<"x", "(", "5", ";">>,
       <<"function", "x", "{", "}", ";">>,
       <<"{", "5", "5", "}", ";">>,
       <<"x", "[", "5", ";">> >>
GoodStatements ==
    << <<"y">>, <<"let", "y", "=", "5">>, <<"return", "5">>, <<"5", "+", "y">> >>
\* the statement that GoodStatements[g] is, without its Label
GoodNode(g) ==
    IF g = 1 THEN [kind |-> "ExpressionStatement", Expression |-> Identifier("y")]
    ELSE IF g = 2
    THEN [kind |-> "LetStatement", Name |-> Identifier("y"), Value |-> IntegerLiteral(5)]
    ELSE IF g = 3 THEN [kind |-> "ReturnStatement", ReturnValue |-> IntegerLiteral(5)]
    ELSE [kind |-> "ExpressionStatement",
          Expression |-> InfixExpression(IntegerLiteral(5), "+", Identifier("y"))]
MalformedWords(b, g, term) == BadStatements[b] \o GoodStatements[g] \o term

\* Texts given in full, beside the SampleTexts of the lexer:
\*   1: 5 > 4 == 3 < 4
\*   2: 5 > 4 == 3 < 4;
\*   3: a * b[2]
\*   4: let f = function(x) { if (x) { return 1; } 2 }; f(0) + f(1);
\*   5: {1: 2, "a": [true, !false]}[1];
\*   6..11: texts that end inside a block, an array literal, a hash literal, a
\*          parameter list or an argument list: if (x) { y ;   [1,   {1: 2,
\*          function(x,   x(1,   {
\*   12: [1, 2
ParserSamples ==
    << <<"5", ">", "4", "==", "3", "<", "4">>,
       <<"5", ">", "4", "==", "3", "<", "4", ";">>,
       <<"a", "*", "b", "[", "2", "]">>,
       <<"let", "f", "=", "function", "(", "x", ")", "{", "if", "(", "x", ")", "{",
         "return", "1", ";", "}", "2", "}", ";", "f", "(", "0", ")", "+", "f", "(", "1",
         ")", ";">>,
       <<"{", "1", ":", "2", ",", "\"a\"", ":", "[", "true", ",", "!", "false", "]", "}", "[",
         "1", "]", ";">>,
       <<"if", "(", "x", ")", "{", "y", ";">>,
       <<"[", "1", ",">>,
       <<"{", "1", ":", "2", ",">>,
       <<"function", "(", "x", ",">>,
       <<"x", "(", "1", ",">>,
       <<"{">>,
       <<"[", "1", ",", "2">> >>

Seqs(S, n) == UNION {[1..k -> S] : k \in 0..n}
OpSeqs(operators, n) ==
    UNION {[1..k -> {operators[i] : i \in 1..Len(operators)}] : k \in 1..n}
Terms == {<<>>, <<";">>}

\* The texts, each named by its family and what it is made from.
ParseIds ==
    {[fam |-> "tokens", words |-> ws] :
        ws \in Seqs({Vocabulary[i] : i \in 1..Len(Vocabulary)}, MaxWords)}
    \cup {[fam |-> "expr", form |-> f, ops |-> o, term |-> t] :
             f \in ExprForms, o \in OpSeqs(InfixOperators, MaxOps), t \in Terms}
    \cup {[fam |-> "arith", form |-> f, ops |-> o, down |-> d, term |-> t] :
             f \in ArithForms, o \in OpSeqs(ArithOperators, MaxOps), d \in BOOLEAN,
             t \in Terms}
    \cup {[fam |-> "malformed", bad |-> b, good |-> g, term |-> t] :
             b \in 1..Len(BadStatements), g \in 1..Len(GoodStatements), t \in Terms}
    \cup {[fam |-> "sample", i |-> i] : i \in 1..Len(ParserSamples)}
    \cup {[fam |-> "lexersample", i |-> i] : i \in 1..Len(SampleTexts)}

TextOf(id) ==
    IF id.fam = "tokens" THEN TextOfWords(id.words)
    ELSE IF id.fam = "expr" THEN TextOfWords(ExprWords(id.form, id.ops, id.term))
    ELSE IF id.fam = "arith"
    THEN TextOfWords(ArithWords(id.form, id.ops, id.down, id.term))
    ELSE IF id.fam = "malformed" THEN TextOfWords(MalformedWords(id.bad, id.good, id.term))
    ELSE IF id.fam = "sample" THEN TextOfWords(ParserSamples[id.i])
    ELSE SampleTexts[id.i]

(***************************************************************************)
(* The parser specification: a Parser is made for the Lexer of a text,     *)
(* ParseProgram runs one iteration of its loop per step, and the Program   *)
(* is evaluated in a new Environment when the Parser recorded no error, as *)
(* repl.Start does.  ps.before holds the errors as they were before the    *)
(* last step.                                                              *)
(***************************************************************************)
InitParse ==
    /\ ps \in {[status |-> "new", id |-> id, input |-> TextOf(id), p |-> NoParser,
                stmts |-> <<>>, program |-> NoNode, before |-> <<>>] : id \in ParseIds}
    /\ lx = NoLexer
    /\ envs = <<>>
    /\ nobj = 0
    /\ op = NoOp
    /\ got = NoGot
    /\ nsets = 0
    /\ prog = 0
    /\ pc = 0
    /\ res = None
    /\ status = "idle"
    /\ results = <<>>
    /\ log = <<>>
    /\ lists = <<>>

\* p = parser.Parser(lexer.Lexer(l))
NewParser ==
    /\ ps.status = "new"
    /\ \E P \in {Parser(Lexer(ps.input))} :
          ps' = [ps EXCEPT !.p = P,
                           !.status = IF P.exc # "" THEN "raised" ELSE "parsing"]
    /\ UNCHANGED <<envs, nobj, op, got, nsets, prog, pc, res, status, results, log, lists,
                   lx>>

\* ParseProgram: one iteration of `while not self.curTokenIs(EOF)`
ParseStatement ==
    /\ ps.status = "parsing"
    /\ ~curTokenIs(ps.p, "EOF")
    /\ \E s \in {parseProgramStep(ps.stmts, ps.p)} :
          ps' = [ps EXCEPT !.p = s.p,
                           !.stmts = s.stmts,
                           !.before = Errors(ps.p),
                           !.status = IF s.p.exc # "" THEN "raised" ELSE "parsing"]
    /\ UNCHANGED <<envs, nobj, op, got, nsets, prog, pc, res, status, results, log, lists,
                   lx>>

\* ParseProgram: the loop is over, return p
ParseReturn ==
    /\ ps.status = "parsing"
    /\ curTokenIs(ps.p, "EOF")
    /\ ps' = [ps EXCEPT !.status = "parsed", !.program = Program(ps.stmts),
                        !.before = Errors(ps.p)]
    /\ UNCHANGED <<envs, nobj, op, got, nsets, prog, pc, res, status, results, log, lists,
                   lx>>

\* repl.Start: if p.Errors(): printParserErrors(...); continue
PrintParserErrors ==
    /\ ps.status = "parsed"
    /\ Errors(ps.p) # <<>>
    /\ ps' = [ps EXCEPT !.status = "rejected"]
    /\ UNCHANGED <<envs, nobj, op, got, nsets, prog, pc, res, status, results, log, lists,
                   lx>>

\* repl.Start: evaluated = evaluator.Eval(program, env)
EvalParsed ==
    /\ ps.status = "parsed"
    /\ Errors(ps.p) = <<>>
    /\ \E r \in {Eval(ps.program, 1, [envs |-> <<Environment(0)>>, nobj |-> FirstFreeId,
                                       lists |-> <<>>, log |-> <<>>])} :
          /\ res' = r.res
          /\ envs' = r.st.envs
          /\ nobj' = r.st.nobj
          /\ lists' = r.st.lists
          /\ ps' = [ps EXCEPT !.status = IF IsRaised(r.res) THEN "evalraised"
                                         ELSE "evaluated"]
    /\ UNCHANGED <<op, got, nsets, prog, pc, status, results, log, lx>>

NextParse == NewParser \/ ParseStatement \/ ParseReturn \/ PrintParserErrors \/ EvalParsed

SpecParse == InitParse /\ [][NextParse]_vars

(***************************************************************************)
(* Properties of the parser and of the whole interpreter, stated of        *)
(* SpecParse.                                                              *)
(***************************************************************************)
IsPrefix(a, b) == Len(a) <= Len(b) /\ SubSeq(b, 1, Len(a)) = a

\* the statement GoodNode(g) with the Label of stmt
GoodStatementAs(g, stmt) ==
    IF g = 1 THEN ExpressionStatement(stmt.Label, GoodNode(g).Expression)
    ELSE IF g = 2 THEN LetStatement(stmt.Label, "y", GoodNode(g).Value)
    ELSE IF g = 3 THEN ReturnStatement(stmt.Label, GoodNode(g).ReturnValue)
    ELSE ExpressionStatement(stmt.Label, GoodNode(g).Expression)

\* The well-formed statement that ends a text of the family "malformed" is the
\* last statement of the Program.
GoodStatementParsed ==
    /\ Len(ps.program.Statements) > 0
    /\ ps.program.Statements[Len(ps.program.Statements)]
           = GoodStatementAs(ps.id.good,
                             ps.program.Statements[Len(ps.program.Statements)])

\* C17: for every text, no host exception leaves the Parser's constructor or
\* ParseProgram and no step removes an error recorded before it; for a text
\* whose first statement is malformed, the error list is not empty when
\* ParseProgram has returned and the well-formed statement that follows is in the
\* Program.
C17_ErrorsAreRecordedAndParsingGoesOn ==
    /\ ps.status # "raised"
    /\ ps.status \in {"parsing", "parsed"} => IsPrefix(ps.before, Errors(ps.p))
    /\ ps.status = "parsed" /\ ps.id.fam = "malformed" =>
          Errors(ps.p) # <<>> /\ GoodStatementParsed

\* The claim's order of the infix operators, lowest first.
Level(operator) ==
    IF operator \in {"==", "!="} THEN 1
    ELSE IF operator \in {"<", ">"} THEN 2
    ELSE IF operator \in {"+", "-"} THEN 3
    ELSE 4

\* The operator an expression without parentheses is split at: the last of those
\* of the lowest level.
SplitAt(ops) ==
    CHOOSE k \in 1..Len(ops) :
        /\ \A j \in 1..Len(ops) : Level(ops[k]) <= Level(ops[j])
        /\ \A j \in (k + 1)..Len(ops) : Level(ops[k]) < Level(ops[j])

\* The tree of operands joined by infix operators, by the order of the levels and
\* grouping to the left.
RECURSIVE RefTree(_, _)
RefTree(atoms, ops) ==
    IF ops = <<>> THEN atoms[1]
    ELSE LET k == SplitAt(ops)
         IN  InfixExpression(RefTree(SubSeq(atoms, 1, k), SubSeq(ops, 1, k - 1)),
                             ops[k],
                             RefTree(SubSeq(atoms, k + 1, Len(atoms)),
                                     SubSeq(ops, k + 1, Len(ops))))

\* The operands of an expression of the family "expr" as the claim reads them: a
\* prefix operator with its operand, an index or call with what it is applied to,
\* and a parenthesised group are one operand each.
NameAtoms(n) == [k \in 1..(n + 1) |-> Identifier(OperandNames[k])]
ExprAtoms(form, ops) ==
    LET n == Len(ops)
        a == NameAtoms(n)
    IN  IF form = "minus" THEN <<PrefixExpression("-", a[1])>> \o Tail(a)
        ELSE IF form = "bang" THEN <<PrefixExpression("!", a[1])>> \o Tail(a)
        ELSE IF form = "index"
        THEN SubSeq(a, 1, n) \o <<IndexExpression(a[n + 1], IntegerLiteral(2))>>
        ELSE IF form = "call"
        THEN SubSeq(a, 1, n) \o <<CallExpression(a[n + 1], <<Identifier("y")>>)>>
        ELSE IF form = "groupFirst"
        THEN <<InfixExpression(a[1], ops[1], a[2])>> \o SubSeq(a, 3, n + 1)
        ELSE IF form = "groupLast"
        THEN SubSeq(a, 1, n - 1) \o <<InfixExpression(a[n], ops[n], a[n + 1])>>
        ELSE a
ExprOps(form, ops) ==
    IF form = "groupFirst" THEN Tail(ops)
    ELSE IF form = "groupLast" THEN SubSeq(ops, 1, Len(ops) - 1)
    ELSE ops
ExprTree(form, ops) == RefTree(ExprAtoms(form, ops), ExprOps(form, ops))

\* ((5 > 4) == (3 < 4)) and (a * (b[2]))
ComparisonTree ==
    InfixExpression(InfixExpression(IntegerLiteral(5), ">", IntegerLiteral(4)), "==",
                    InfixExpression(IntegerLiteral(3), "<", IntegerLiteral(4)))
IndexTree ==
    InfixExpression(Identifier("a"), "*",
                    IndexExpression(Identifier("b"), IntegerLiteral(2)))

\* the tree the claim gives the text
ClaimedTree(id) ==
    IF id.fam = "expr" THEN ExprTree(id.form, id.ops)
    ELSE IF id.i = 3 THEN IndexTree
    ELSE ComparisonTree

IsExpressionText(id) == id.fam = "expr" \/ (id.fam = "sample" /\ id.i \in {1, 2, 3})

\* C18: every expression text is parsed, and as one expression statement whose
\* tree binds the operators of a higher level tighter, groups operators of the
\* same level to the left, and takes a prefix operator with its operand, an index
\* or call with what it is applied to, and a parenthesised group as one operand.
C18_PrecedenceAndLeftGrouping ==
    IsExpressionText(ps.id) /\ ps.status \in {"raised", "parsed"} =>
        /\ ps.status = "parsed"
        /\ Errors(ps.p) = <<>>
        /\ ps.program.Statements = <<ExpressionStatement(1, ClaimedTree(ps.id))>>

\* The arithmetic value of operands joined by +, - and *.
Apply(operator, a, b) ==
    IF operator = "+" THEN a + b ELSE IF operator = "-" THEN a - b ELSE a * b
RECURSIVE RefValue(_, _)
RefValue(vals, ops) ==
    IF ops = <<>> THEN vals[1]
    ELSE LET k == SplitAt(ops)
         IN  Apply(ops[k], RefValue(SubSeq(vals, 1, k), SubSeq(ops, 1, k - 1)),
                   RefValue(SubSeq(vals, k + 1, Len(vals)), SubSeq(ops, k + 1, Len(ops))))
ArithVals(form, ops, down) ==
    LET n == Len(ops)
        v == [k \in 1..(n + 1) |-> ArithOperand(k, n, down)]
    IN  IF form = "minus" THEN <<0 - v[1]>> \o Tail(v)
        ELSE IF form = "groupFirst"
        THEN <<Apply(ops[1], v[1], v[2])>> \o SubSeq(v, 3, n + 1)
        ELSE IF form = "groupLast"
        THEN SubSeq(v, 1, n - 1) \o <<Apply(ops[n], v[n], v[n + 1])>>
        ELSE v
ArithValue(form, ops, down) == RefValue(ArithVals(form, ops, down), ExprOps(form, ops))

\* C19: for every text of the family "arith", lexing, parsing and evaluating it
\* ends with the Integer whose Value is the arithmetic value of the expression.
C19_IntegerExpressionValue ==
    ps.id.fam = "arith" /\ ps.status \in {"raised", "rejected", "evaluated", "evalraised"} =>
        /\ ps.status = "evaluated"
        /\ res.Type = "INTEGER"
        /\ res.Value = ArithValue(ps.id.form, ps.id.ops, ps.id.down)

(***************************************************************************)
(* The printer (the __str__ methods of ast.py).  A str is the sequence of  *)
(* its characters, as in the lexer, so that what is printed can be given   *)
(* to a Lexer again.                                                       *)
(***************************************************************************)
\* The characters of a str held as a word of the texts: the words are one
\* character long unless WordChars spells them.
Chars(w) == IF w = "" THEN <<>> ELSE Word(w)

\* str(n) for an int n >= 0: the Literal of the INT token of a numeral that has
\* no leading zero
DigitChar(d) == CHOOSE ch \in Digits : DigitValue(ch) = d
RECURSIVE Decimal(_)
Decimal(n) == IF n < 10 THEN <<DigitChar(n)>> ELSE Decimal(n \div 10) \o <<DigitChar(n % 10)>>

\* What a __str__ gives when it raises instead, and the default repr of an
\* ast.Expression(), which holds the address of the object: neither is a
\* sequence of characters.
StrRaised == <<"TypeError">>
ExpressionRepr == <<"<ptsc.ast.Expression object>">>

\* The concatenation of the parts of an f-string, and sep.join(items); a part that
\* raised makes the whole raise.
RECURSIVE Concat(_), JoinWith(_, _)
Concat(parts) ==
    IF parts = <<>> THEN <<>>
    ELSE IF Head(parts) = StrRaised \/ Concat(Tail(parts)) = StrRaised THEN StrRaised
    ELSE Head(parts) \o Concat(Tail(parts))
JoinWith(sep, items) ==
    IF items = <<>> THEN <<>>
    ELSE IF Len(items) = 1 THEN Head(items)
    ELSE Concat(<<Head(items), sep, JoinWith(sep, Tail(items))>>)

\* str(node); str(None) is 'None', and iterating over a None list raises.
RECURSIVE Str(_), StrEach(_)
StrEach(nodes) == [i \in 1..Len(nodes) |-> Str(nodes[i])]
Str(node) ==
    LET k == node.kind
    IN  IF k = "Program" \/ k = "BlockStatement" THEN Concat(StrEach(node.Statements))
        ELSE IF k = "LetStatement"
        THEN Concat(<<Chars("let"), <<" ">>, Str(node.Name), <<" ", "=", " ">>,
                      IF node.Value = NoNode THEN <<>> ELSE Str(node.Value), <<";">> >>)
        ELSE IF k = "ReturnStatement"
        THEN Concat(<<Chars("return"), <<" ">>, Str(node.ReturnValue), <<";">> >>)
        ELSE IF k = "ExpressionStatement"
        THEN IF node.Expression = NoNode THEN <<>> ELSE Str(node.Expression)
        ELSE IF k = "Identifier" THEN Chars(node.Value)
        ELSE IF k = "Boolean" THEN IF node.Value THEN Chars("true") ELSE Chars("false")
        ELSE IF k = "IntegerLiteral" THEN Decimal(node.Value)
        ELSE IF k = "StringLiteral" THEN Chars(node.Value)
        ELSE IF k = "PrefixExpression"
        THEN Concat(<<<<"(">>, Chars(node.Operator), Str(node.Right), <<")">> >>)
        ELSE IF k = "InfixExpression"
        THEN Concat(<<<<"(">>, Str(node.Left), <<" ">>, Chars(node.Operator), <<" ">>,
                      Str(node.Right), <<")">> >>)
        ELSE IF k = "IfExpression"
        THEN Concat(<<Chars("if"), Str(node.Condition), <<" ">>, Str(node.Consequence),
                      IF node.Alternative = NoNode THEN <<>>
                      ELSE Concat(<<Chars("else"), <<" ">>, Str(node.Alternative)>>)>>)
        ELSE IF k = "FunctionLiteral"
        THEN IF node.Parameters = NoList THEN StrRaised
             ELSE Concat(<<Chars("function"), <<"(">>,
                           JoinWith(<<",", " ">>, StrEach(node.Parameters)), <<")", " ">>,
                           Str(node.Body)>>)
        ELSE IF k = "CallExpression"
        THEN IF node.Arguments = NoList THEN StrRaised
             ELSE Concat(<<Str(node.Function), <<"(">>,
                           JoinWith(<<",", " ">>, StrEach(node.Arguments)), <<")">> >>)
        ELSE IF k = "ArrayLiteral"
        THEN IF node.Elements = NoList THEN StrRaised
             ELSE Concat(<<<<"[">>, JoinWith(<<",", " ">>, StrEach(node.Elements)),
                           <<"]">> >>)
        ELSE IF k = "IndexExpression"
        THEN Concat(<<<<"(">>, Str(node.Left), <<"[">>, Str(node.Index), <<"]", ")">> >>)
        ELSE IF k = "HashLiteral"
        THEN IF Len(node.Pairs) > 0 THEN StrRaised ELSE <<"{", "}">>
        ELSE IF k = "Expression" THEN ExpressionRepr
        ELSE Chars("None")

(***************************************************************************)
(* The printer specification: a text is parsed as in the parser            *)
(* specification; when the Parser recorded no error the Program is         *)
(* printed, and what was printed is parsed and printed again.              *)
(***************************************************************************)
MaxPrinted == 2       \* statements of a printed text

\* The str spelled by words written one after the other.
RECURSIVE Spell(_)
Spell(ws) == IF ws = <<>> THEN <<>> ELSE Word(Head(ws)) \o Spell(Tail(ws))

\* The statements of the printed texts, spaced as the printer spaces them:
\*    1: 3 + 4;                2: -5 * 5;             3: let x = 5;
\*    4: return (a + b);       5: (a + b)             6: f(x, y)
\*    7: [1, 2]                8: (a[1])              9: if (x) { y }
\*   10: if (x) { y } else { z }                     11: function(x) { x }
\*   12: {1: 2}               13: {}                 14: "a";
\*   15: x;                   16: let f = function(x, y) { (x + y) };
PrintedStatements ==
    << <<"3", " ", "+", " ", "4", ";">>,
       <<"-", "5", " ", "*", " ", "5", ";">>,
       <<"let", " ", "x", " ", "=", " ", "5", ";">>,
       <<"return", " ", "(", "a", " ", "+", " ", "b", ")", ";">>,
       <<"(", "a", " ", "+", " ", "b", ")">>,
       <<"f", "(", "x", ",", " ", "y", ")">>,
       <<"[", "1", ",", " ", "2", "]">>,
       <<"(", "a", "[", "1", "]", ")">>,
       <<"if", " ", "(", "x", ")", " ", "{", " ", "y", " ", "}">>,
       <<"if", " ", "(", "x", ")", " ", "{", " ", "y", " ", "}", " ", "else", " ", "{",
         " ", "z", " ", "}">>,
       <<"function", "(", "x", ")", " ", "{", " ", "x", " ", "}">>,
       <<"{", "1", ":", " ", "2", "}">>,
       <<"{", "}">>,
       <<"\"a\"", ";">>,
       <<"x", ";">>,
       <<"let", " ", "f", " ", "=", " ", "function", "(", "x", ",", " ", "y", ")", " ",
         "{", " ", "(", "x", " ", "+", " ", "y", ")", " ", "}", ";">> >>

\* The text of the statements numbered in idx, one space between two of them.
RECURSIVE PrintedText(_)
PrintedText(idx) ==
    IF idx = <<>> THEN <<>>
    ELSE IF Len(idx) = 1 THEN Spell(PrintedStatements[idx[1]])
    ELSE Spell(PrintedStatements[idx[1]]) \o <<" ">> \o PrintedText(Tail(idx))

PrintIds ==
    {[fam |-> "printed", idx |-> i] :
        i \in UNION {[1..n -> 1..Len(PrintedStatements)] : n \in 1..MaxPrinted}}

\* No second parse has been made.
NoAgain == [exc |-> "", errors |-> <<>>, str |-> <<>>]

InitPrint ==
    /\ ps \in {[status |-> "new", id |-> id, input |-> PrintedText(id.idx), p |-> NoParser,
                stmts |-> <<>>, program |-> NoNode, before |-> <<>>, str |-> <<>>,
                again |-> NoAgain] : id \in PrintIds}
    /\ lx = NoLexer
    /\ envs = <<>>
    /\ nobj = 0
    /\ op = NoOp
    /\ got = NoGot
    /\ nsets = 0
    /\ prog = 0
    /\ pc = 0
    /\ res = None
    /\ status = "idle"
    /\ results = <<>>
    /\ log = <<>>
    /\ lists = <<>>

\* str(program), for a Program parsed without errors
PrintProgram ==
    /\ ps.status = "parsed"
    /\ Errors(ps.p) = <<>>
    /\ \E s \in {Str(ps.program)} :
          ps' = [ps EXCEPT !.str = s,
                           !.status = IF s = StrRaised THEN "strraised" ELSE "printed"]
    /\ UNCHANGED <<envs, nobj, op, got, nsets, prog, pc, res, status, results, log, lists,
                   lx>>

\* What parsing and printing the str s gives: the exception that left the Parser
\* or the printer, the errors of the Parser, and the str printed.
Reprinted(r) ==
    IF r.p.exc # "" THEN [exc |-> r.p.exc, errors |-> <<>>, str |-> <<>>]
    ELSE IF Str(r.node) = StrRaised
    THEN [exc |-> "TypeError", errors |-> Errors(r.p), str |-> <<>>]
    ELSE [exc |-> "", errors |-> Errors(r.p), str |-> Str(r.node)]
Reparse(s) == Reprinted(ParseProgram(Parser(Lexer(s))))

\* str(parser.Parser(lexer.Lexer(str(program))).ParseProgram())
ParseAgain ==
    /\ ps.status = "printed"
    /\ ps' = [ps EXCEPT !.again = Reparse(ps.str), !.status = "reprinted"]
    /\ UNCHANGED <<envs, nobj, op, got, nsets, prog, pc, res, status, results, log, lists,
                   lx>>

NextPrint == NewParser \/ ParseStatement \/ ParseReturn \/ PrintProgram \/ ParseAgain

SpecPrint == InitPrint /\ [][NextPrint]_vars

(***************************************************************************)
(* Properties of the printer, stated of SpecPrint.                         *)
(***************************************************************************)
\* C22: for every text that parses without errors, printing the Program gives a
\* str, parsing that str again raises nothing and records no error, and printing
\* the Program parsed from it gives the same str.
C22_PrintingIsIdempotentUnderReparsing ==
    /\ ps.status # "strraised"
    /\ ps.status = "reprinted" =>
          /\ ps.again.exc = ""
          /\ ps.again.errors = <<>>
          /\ ps.again.str = ps.str

(***************************************************************************)
(* The session specification: repl.Start reads the lines of a session one  *)
(* after the other, one iteration of its loop per step, with the one       *)
(* Environment it made before the loop.  results records, for each line    *)
(* read, what became of it and the environments before and after it.       *)
(***************************************************************************)
MaxLines == 3         \* lines of a session

\* repl.PROMPT, when PS2 is not set
PROMPT == <<">", ">", " ">>

\* str.lstrip(chars): the leading characters that are among chars are dropped
RECURSIVE lstrip(_, _)
lstrip(l, chars) ==
    IF l # <<>> /\ (\E i \in 1..Len(chars) : chars[i] = Head(l)) THEN lstrip(Tail(l), chars)
    ELSE l

\* The lines of the sessions, each ended by its newline as readline returns it:
\*   1: let a = 1 ;        2: let a = 2 ;        3: a ;        4: let a 3 ;
\*   5: let b = 2 ; let a 3 ;                   6: b ;        7: - true ;
\*   8: >> 5 ;
SessionLines ==
    << <<"let", "a", "=", "1", ";">>,
       <<"let", "a", "=", "2", ";">>,
       <<"a", ";">>,
       <<"let", "a", "3", ";">>,
       <<"let", "b", "=", "2", ";", "let", "a", "3", ";">>,
       <<"b", ";">>,
       <<"-", "true", ";">>,
       <<">", ">", "5", ";">> >>
LineText(i) == TextOfWords(SessionLines[i]) \o <<"\n">>

Sessions == UNION {[1..n -> 1..Len(SessionLines)] : n \in 0..MaxLines}

\* One iteration of Start's loop for the line l, st being the interpreter's heap:
\* what became of the line (kind), what Eval returned (res) and the heap after it.
replAfterEval(e) ==
    [kind |-> IF IsRaised(e.res) THEN "raised" ELSE "evaluated", res |-> e.res, st |-> e.st]
replAfterParse(r, st) ==
    IF r.p.exc # "" THEN [kind |-> "raised", res |-> Raised(r.p.exc), st |-> st]
    ELSE IF Errors(r.p) # <<>> THEN [kind |-> "rejected", res |-> None, st |-> st]
    ELSE replAfterEval(Eval(r.node, 1, st))
replLine(l, st) ==
    IF l = <<>> THEN [kind |-> "returned", res |-> None, st |-> st]
    ELSE replAfterParse(ParseProgram(Parser(Lexer(l))), st)

InitRepl ==
    /\ prog \in Sessions
    /\ envs = <<Environment(0)>>          \* env = environment.Environment()
    /\ nobj = FirstFreeId
    /\ lists = <<>>
    /\ pc = 0
    /\ res = None
    /\ status = "reading"
    /\ results = <<>>
    /\ log = <<>>
    /\ lx = NoLexer
    /\ ps = NoParser
    /\ op = NoOp
    /\ got = NoGot
    /\ nsets = 0

\* Start's loop body for the next line of the session
ReplLine ==
    /\ status = "reading"
    /\ pc < Len(prog)
    /\ \E s \in {replLine(lstrip(LineText(prog[pc + 1]), PROMPT),
                          [envs |-> envs, nobj |-> nobj, lists |-> lists, log |-> <<>>])} :
          /\ envs' = s.st.envs
          /\ nobj' = s.st.nobj
          /\ lists' = s.st.lists
          /\ res' = s.res
          /\ results' = Append(results, [line |-> prog[pc + 1], kind |-> s.kind,
                                         res |-> s.res, before |-> envs,
                                         after |-> s.st.envs])
          /\ status' = IF s.kind = "raised" THEN "raised"
                       ELSE IF s.kind = "returned" THEN "returned" ELSE "reading"
    /\ pc' = pc + 1
    /\ UNCHANGED <<op, got, nsets, prog, log, lx, ps>>

\* readline returns '' at the end of the input: `if not l: return`
ReplReturn ==
    /\ status = "reading"
    /\ pc = Len(prog)
    /\ status' = "returned"
    /\ UNCHANGED <<envs, nobj, op, got, nsets, prog, pc, res, results, log, lists, lx, ps>>

NextRepl == ReplLine \/ ReplReturn

SpecRepl == InitRepl /\ [][NextRepl]_vars

(***************************************************************************)
(* Properties of the session, stated of SpecRepl.                          *)
(***************************************************************************)
\* What the lines are meant to do: the name a line binds and the Integer it binds
\* it to, the name a line looks up, and whether the line is malformed.
LineBinds(i) == IF i \in {1, 2} THEN "a" ELSE ""
LineValue(i) == i
LineReads(i) == IF i = 3 THEN "a" ELSE IF i = 6 THEN "b" ELSE ""
LineMalformed(i) == i \in {4, 5}

\* The lines before line j of the session that bind name.
BindersBefore(j, name) == {k \in 1..(j - 1) : LineBinds(results[k].line) = name}
LastBinder(j, name) ==
    CHOOSE k \in BindersBefore(j, name) : \A m \in BindersBefore(j, name) : m <= k

\* A malformed line is not evaluated: it leaves the environments as they were, and
\* Start goes on to the next line.
MalformedLineSkipped(j) ==
    /\ results[j].kind = "rejected"
    /\ results[j].after = results[j].before
    /\ status = "raised" => j < Len(results)

\* A line that binds a name binds it in the session's Environment, where it stays.
BindingKept(j) ==
    /\ results[j].kind = "evaluated"
    /\ \A m \in j..Len(results) :
          /\ LineBinds(results[j].line) \in DOMAIN results[m].after[1].store
          /\ results[m].after[1].store[LineBinds(results[j].line)].Type = "INTEGER"

\* A line that looks a name up evaluates to the object the last line that bound
\* the name bound it to, and to an Error when no line bound it.
BindingSeen(j) ==
    /\ results[j].kind = "evaluated"
    /\ IF BindersBefore(j, LineReads(results[j].line)) # {}
       THEN LET k == LastBinder(j, LineReads(results[j].line))
            IN  /\ Is(results[j].res, results[k].after[1].store[LineReads(results[j].line)])
                /\ results[j].res.Value = LineValue(results[k].line)
       ELSE /\ results[j].res.Type = "ERROR"
            /\ results[j].res.Value = "identifier not found: " \o LineReads(results[j].line)

\* C23: every line of a session is evaluated against the one Environment of the
\* session, so that a line sees the let bindings of the lines before it; a line
\* whose parse recorded errors is not evaluated and leaves that Environment
\* unchanged, and the session goes on with the next line.
C23_SessionSharesOneEnvironment ==
    \A j \in 1..Len(results) :
        /\ LineMalformed(results[j].line) => MalformedLineSkipped(j)
        /\ LineBinds(results[j].line) # "" => BindingKept(j)
        /\ LineReads(results[j].line) # "" => BindingSeen(j)

\* C28: ParseProgram terminates for every finite text and returns a Program; a
\* text that ends inside a block, a list, a string or a hash literal ends the parse
\* at EOF.
\* Every iteration of the statement loop leaves the Parser at a later token of the
\* text, of which there are finitely many before EOF; no exception leaves the
\* Parser, and what ParseProgram returns at EOF is a Program.
C28_ParseProgramReturnsAProgram ==
    /\ [](ps.status \in {"parsing", "parsed", "raised"} => ps.p.exc = "")
    /\ [](ps.status = "parsed" => ps.program.kind = "Program" /\ curTokenIs(ps.p, "EOF"))
    /\ [][ParseStatement => ps'.p.curToken.No > ps.p.curToken.No]_vars

(***************************************************************************)
(* The hash keys (tsobject.py): HashKey() called on Integer, Boolean and   *)
(* String objects.  The host's hash() of a non-empty str depends on the    *)
(* process's hash seed; prog.idx holds what it gives "a" and "b" in this   *)
(* process, drawn from StrHashes.                                          *)
(***************************************************************************)
MaxKeys == 2
StrHashes == 0..MaxInt
HashedStrings == <<"", "a", "b">>

\* Python's hash() of a bool and of a str
hashBool(b) == IF b THEN 1 ELSE 0
hashStr(v, seeded) == IF v = "" THEN 0 ELSE IF v = "a" THEN seeded[1] ELSE seeded[2]

\* Integer.HashKey, Boolean.HashKey, String.HashKey: the value returned
HashKey(o, seeded) ==
    IF o.Type = "INTEGER" THEN o.Value
    ELSE IF o.Type = "BOOLEAN" THEN hashBool(o.Value)
    ELSE hashStr(o.Value, seeded)

InitHash ==
    /\ prog \in {ProgId("hashkey", <<a, b>>) : a \in StrHashes, b \in StrHashes}
    /\ envs = <<>>
    /\ nobj = FirstFreeId
    /\ lists = <<>>
    /\ pc = 0
    /\ res = None
    /\ status = "hashing"
    /\ results = <<>>
    /\ log = <<>>
    /\ lx = NoLexer
    /\ ps = NoParser
    /\ op = NoOp
    /\ got = NoGot
    /\ nsets = 0

\* o.HashKey() for the object o
HashKeyOf(o) ==
    /\ results' = Append(results, [obj |-> o, key |-> HashKey(o, prog.idx)])
    /\ res' = o
    /\ nobj' = IF o.Id > nobj THEN o.Id ELSE nobj

\* tsobject.Integer(Value=v).HashKey(), TRUE.HashKey(), FALSE.HashKey(),
\* tsobject.String(Value=v).HashKey()
CallHashKey ==
    /\ status = "hashing"
    /\ Len(results) < MaxKeys
    /\ \/ \E v \in 0..MaxInt : HashKeyOf(Obj("INTEGER", v, nobj + 1))
       \/ \E b \in {TrueObj, FalseObj} : HashKeyOf(b)
       \/ \E k \in 1..Len(HashedStrings) : HashKeyOf(Obj("STRING", HashedStrings[k], nobj + 1))
    /\ UNCHANGED <<envs, op, got, nsets, prog, pc, status, log, lists, lx, ps>>

NextHash == CallHashKey

SpecHash == InitHash /\ [][NextHash]_vars

\* C27: the hash key of a hashable object carries its type tag: the keys of two
\* objects of different types (Integer 1 and true, Integer 0 and false, an Integer
\* and a String) are never equal.
C27_KeysOfDifferentTypesDiffer ==
    \A i \in 1..Len(results) : \A j \in 1..Len(results) :
        results[i].obj.Type # results[j].obj.Type => results[i].key # results[j].key

====
